---- MODULE Spec2Model ----
(***************************************************************************)
(* dotENV: the master-password lockout guard (lib/lockout.ts), the unlock  *)
(* flow of the project page and the envelope encryption it relies on.      *)
(*                                                                         *)
(* JavaScript values that may be null are modelled as sequences of length  *)
(* at most one: Null is <<>> and a present value v is <<v>>.               *)
(***************************************************************************)
EXTENDS Integers, Sequences, FiniteSets, TLC

\* ------------------------------------------------------------------------
\* Bounds of the model
\* ------------------------------------------------------------------------

\* number of times the clock may advance in one behaviour
MaxClockSteps == 3

\* recordFailedAttempt is not called once the stored attempts reached this
MaxRecorded == 4

\* the most rows the secrets table holds
MaxSecrets == 2

\* ------------------------------------------------------------------------
\* lib/lockout.ts
\* ------------------------------------------------------------------------

LOCKOUT_KEY_PREFIX == "dotenv_lockout_"

MAX_ATTEMPTS == 3

LOCKOUT_DURATION_MS == 3 * 60 * 60 * 1000

Projects == {"A", "B"}

Null == <<>>

Some(v) == <<v>>

\* JavaScript truthiness of a nullable number: null and 0 are falsy
Truthy(x) == x # Null /\ x[1] # 0

\* how far the clock moves in one step: one millisecond, or just short of
\* the lockout duration
ClockSteps == {1, LOCKOUT_DURATION_MS - 1}

\* faulty variant: one key for every project
storageKey_Shared(projectId) == <<LOCKOUT_KEY_PREFIX, "">>

storageKey(projectId) == <<LOCKOUT_KEY_PREFIX, projectId>>

StorageKeys == {storageKey(p) : p \in Projects}

\* JSON text of a LockoutState; JSON.parse is its inverse on such text
JSONstringify(state) == [json |-> state]

IsJSON(raw) == DOMAIN raw = {"json"}

JSONparse(raw) == raw.json

\* an item that JSON.parse rejects with a SyntaxError
Unparseable == [text |-> "not json"]

\* The browser's localStorage: its items, the methods that throw when
\* called (storage disabled, full or unavailable), and whether an exception
\* of a method has left the lockout module uncaught.
StorageMethods == {"getItem", "setItem", "removeItem"}

StorageOf(items) == [items |-> items, throws |-> {}, uncaught |-> FALSE]

EmptyStorage == StorageOf([k \in StorageKeys |-> Null])

getItem(ls, key) ==
    IF "getItem" \in ls.throws THEN [threw |-> TRUE, value |-> Null]
    ELSE [threw |-> FALSE, value |-> ls.items[key]]

setItem(ls, key, value) ==
    IF "setItem" \in ls.throws THEN [threw |-> TRUE, ls |-> ls]
    ELSE [threw |-> FALSE, ls |-> [ls EXCEPT !.items[key] = Some(value)]]

removeItem(ls, key) ==
    IF "removeItem" \in ls.throws THEN [threw |-> TRUE, ls |-> ls]
    ELSE [threw |-> FALSE, ls |-> [ls EXCEPT !.items[key] = Null]]

\* localStorage.getItem + JSON.parse: Null when there is no item, and Null
\* from the catch block when getItem or JSON.parse throws
getLockoutState(ls, projectId) ==
    LET raw == getItem(ls, storageKey(projectId))
    IN  IF raw.threw THEN Null
        ELSE IF raw.value = Null THEN Null
        ELSE IF IsJSON(raw.value[1]) THEN Some(JSONparse(raw.value[1]))
        ELSE Null

\* localStorage.setItem; the catch block swallows its exception
saveLockoutState(ls, projectId, state) ==
    setItem(ls, storageKey(projectId), JSONstringify(state)).ls

\* faulty variant: resets the counter but leaves the lock in place
clearLockout_KeepsLock(ls, projectId) ==
    LET state == getLockoutState(ls, projectId)
    IN  IF state = Null THEN ls
        ELSE saveLockoutState(ls, projectId,
                 [attempts |-> 0, lockedUntil |-> state[1].lockedUntil])

\* faulty variant: removeItem outside a try block
clearLockout_NoCatch(ls, projectId) ==
    LET removed == removeItem(ls, storageKey(projectId))
    IN  IF removed.threw THEN [removed.ls EXCEPT !.uncaught = TRUE]
        ELSE removed.ls

\* localStorage.removeItem; the catch block swallows its exception
clearLockout(ls, projectId) ==
    removeItem(ls, storageKey(projectId)).ls

\* faulty variant: a lock that expires at this very millisecond still counts
isLockedOut_LateExpiry(ls, projectId, t) ==
    LET state == getLockoutState(ls, projectId)
    IN  IF state = Null \/ ~Truthy(state[1].lockedUntil)
        THEN [ls |-> ls, ret |-> [locked |-> FALSE, remainingMs |-> 0]]
        ELSE LET remaining == state[1].lockedUntil[1] - t
             IN  IF remaining < 0
                 THEN [ls |-> clearLockout(ls, projectId),
                       ret |-> [locked |-> FALSE, remainingMs |-> 0]]
                 ELSE [ls |-> ls,
                       ret |-> [locked |-> TRUE, remainingMs |-> remaining]]

\* faulty variant: reports the expiry without clearing the record
isLockedOut_NoClear(ls, projectId, t) ==
    LET state == getLockoutState(ls, projectId)
    IN  IF state = Null \/ ~Truthy(state[1].lockedUntil)
        THEN [ls |-> ls, ret |-> [locked |-> FALSE, remainingMs |-> 0]]
        ELSE LET remaining == state[1].lockedUntil[1] - t
             IN  IF remaining <= 0
                 THEN [ls |-> ls,
                       ret |-> [locked |-> FALSE, remainingMs |-> 0]]
                 ELSE [ls |-> ls,
                       ret |-> [locked |-> TRUE, remainingMs |-> remaining]]

\* each operation yields the storage it leaves and the value it returns;
\* t is the reading of Date.now() during the call
isLockedOut(ls, projectId, t) ==
    LET state == getLockoutState(ls, projectId)
    IN  IF state = Null \/ ~Truthy(state[1].lockedUntil)
        THEN [ls |-> ls, ret |-> [locked |-> FALSE, remainingMs |-> 0]]
        ELSE LET remaining == state[1].lockedUntil[1] - t
             IN  IF remaining <= 0
                 THEN [ls |-> clearLockout(ls, projectId),
                       ret |-> [locked |-> FALSE, remainingMs |-> 0]]
                 ELSE [ls |-> ls,
                       ret |-> [locked |-> TRUE, remainingMs |-> remaining]]

\* faulty variant: locks one failure late (> instead of >=)
recordFailedAttempt_LocksLate(ls, projectId, t) ==
    LET got == getLockoutState(ls, projectId)
        current == IF got = Null
                   THEN [attempts |-> 0, lockedUntil |-> Null]
                   ELSE got[1]
        fresh == IF Truthy(current.lockedUntil) /\ current.lockedUntil[1] <= t
                 THEN [attempts |-> 0, lockedUntil |-> Null]
                 ELSE current
        attempts == fresh.attempts + 1
        lockedUntil == IF attempts > MAX_ATTEMPTS
                       THEN Some(t + LOCKOUT_DURATION_MS)
                       ELSE fresh.lockedUntil
    IN  [ls |-> saveLockoutState(ls, projectId,
                    [attempts |-> attempts, lockedUntil |-> lockedUntil]),
         ret |-> [attempts |-> attempts, locked |-> attempts > MAX_ATTEMPTS]]

\* faulty variant: an expired lock resets the counter but keeps its lockedUntil
recordFailedAttempt_KeepsExpiredLock(ls, projectId, t) ==
    LET got == getLockoutState(ls, projectId)
        current == IF got = Null
                   THEN [attempts |-> 0, lockedUntil |-> Null]
                   ELSE got[1]
        fresh == IF Truthy(current.lockedUntil) /\ current.lockedUntil[1] <= t
                 THEN [attempts |-> 0, lockedUntil |-> current.lockedUntil]
                 ELSE current
        attempts == fresh.attempts + 1
        lockedUntil == IF attempts >= MAX_ATTEMPTS
                       THEN Some(t + LOCKOUT_DURATION_MS)
                       ELSE fresh.lockedUntil
    IN  [ls |-> saveLockoutState(ls, projectId,
                    [attempts |-> attempts, lockedUntil |-> lockedUntil]),
         ret |-> [attempts |-> attempts, locked |-> attempts >= MAX_ATTEMPTS]]

\* faulty variant: reports locked only for the failure that reaches the threshold
recordFailedAttempt_LockedOnlyAtThreshold(ls, projectId, t) ==
    LET got == getLockoutState(ls, projectId)
        current == IF got = Null
                   THEN [attempts |-> 0, lockedUntil |-> Null]
                   ELSE got[1]
        fresh == IF Truthy(current.lockedUntil) /\ current.lockedUntil[1] <= t
                 THEN [attempts |-> 0, lockedUntil |-> Null]
                 ELSE current
        attempts == fresh.attempts + 1
        lockedUntil == IF attempts >= MAX_ATTEMPTS
                       THEN Some(t + LOCKOUT_DURATION_MS)
                       ELSE fresh.lockedUntil
    IN  [ls |-> saveLockoutState(ls, projectId,
                    [attempts |-> attempts, lockedUntil |-> lockedUntil]),
         ret |-> [attempts |-> attempts, locked |-> attempts = MAX_ATTEMPTS]]

\* faulty variant: any stored lock, over or not, restarts the count
recordFailedAttempt_RestartsWhileLocked(ls, projectId, t) ==
    LET got == getLockoutState(ls, projectId)
        current == IF got = Null
                   THEN [attempts |-> 0, lockedUntil |-> Null]
                   ELSE got[1]
        fresh == IF Truthy(current.lockedUntil)
                 THEN [attempts |-> 0, lockedUntil |-> Null]
                 ELSE current
        attempts == fresh.attempts + 1
        lockedUntil == IF attempts >= MAX_ATTEMPTS
                       THEN Some(t + LOCKOUT_DURATION_MS)
                       ELSE fresh.lockedUntil
    IN  [ls |-> saveLockoutState(ls, projectId,
                    [attempts |-> attempts, lockedUntil |-> lockedUntil]),
         ret |-> [attempts |-> attempts, locked |-> attempts >= MAX_ATTEMPTS]]

\* faulty variant: a lock that ends at this very instant still counts
recordFailedAttempt_StrictExpiry(ls, projectId, t) ==
    LET got == getLockoutState(ls, projectId)
        current == IF got = Null
                   THEN [attempts |-> 0, lockedUntil |-> Null]
                   ELSE got[1]
        fresh == IF Truthy(current.lockedUntil) /\ current.lockedUntil[1] < t
                 THEN [attempts |-> 0, lockedUntil |-> Null]
                 ELSE current
        attempts == fresh.attempts + 1
        lockedUntil == IF attempts >= MAX_ATTEMPTS
                       THEN Some(t + LOCKOUT_DURATION_MS)
                       ELSE fresh.lockedUntil
    IN  [ls |-> saveLockoutState(ls, projectId,
                    [attempts |-> attempts, lockedUntil |-> lockedUntil]),
         ret |-> [attempts |-> attempts, locked |-> attempts >= MAX_ATTEMPTS]]

recordFailedAttempt(ls, projectId, t) ==
    LET got == getLockoutState(ls, projectId)
        current == IF got = Null
                   THEN [attempts |-> 0, lockedUntil |-> Null]
                   ELSE got[1]
        fresh == IF Truthy(current.lockedUntil) /\ current.lockedUntil[1] <= t
                 THEN [attempts |-> 0, lockedUntil |-> Null]
                 ELSE current
        attempts == fresh.attempts + 1
        lockedUntil == IF attempts >= MAX_ATTEMPTS
                       THEN Some(t + LOCKOUT_DURATION_MS)
                       ELSE fresh.lockedUntil
    IN  [ls |-> saveLockoutState(ls, projectId,
                    [attempts |-> attempts, lockedUntil |-> lockedUntil]),
         ret |-> [attempts |-> attempts, locked |-> attempts >= MAX_ATTEMPTS]]

Max(a, b) == IF a >= b THEN a ELSE b

\* faulty variant: no floor at 0
getRemainingAttempts_NoFloor(ls, projectId, t) ==
    LET state == getLockoutState(ls, projectId)
    IN  IF state = Null THEN MAX_ATTEMPTS
        ELSE IF Truthy(state[1].lockedUntil) /\ state[1].lockedUntil[1] <= t
        THEN MAX_ATTEMPTS
        ELSE MAX_ATTEMPTS - state[1].attempts

getRemainingAttempts(ls, projectId, t) ==
    LET state == getLockoutState(ls, projectId)
    IN  IF state = Null THEN MAX_ATTEMPTS
        ELSE IF Truthy(state[1].lockedUntil) /\ state[1].lockedUntil[1] <= t
        THEN MAX_ATTEMPTS
        ELSE Max(0, MAX_ATTEMPTS - state[1].attempts)

\* ------------------------------------------------------------------------
\* Strings and byte buffers
\*
\* A JavaScript string is the sequence of its UTF-16 code units; a buffer
\* is the sequence of its bytes.
\* ------------------------------------------------------------------------

IsHighSurrogate(c) == c >= 55296 /\ c <= 56319

IsLowSurrogate(c) == c >= 56320 /\ c <= 57343

\* UTF-8 bytes of one Unicode scalar value
UTF8OfScalar(cp) ==
    IF cp < 128 THEN <<cp>>
    ELSE IF cp < 2048 THEN <<192 + (cp \div 64), 128 + (cp % 64)>>
    ELSE IF cp < 65536
    THEN <<224 + (cp \div 4096), 128 + ((cp \div 64) % 64), 128 + (cp % 64)>>
    ELSE <<240 + (cp \div 262144), 128 + ((cp \div 4096) % 64),
           128 + ((cp \div 64) % 64), 128 + (cp % 64)>>

\* TextEncoder.encode: UTF-8, a surrogate pair is one scalar value and an
\* unpaired surrogate is encoded as U+FFFD
RECURSIVE TextEncode(_)
TextEncode(str) ==
    IF str = <<>> THEN <<>>
    ELSE LET c == Head(str)
         IN  IF IsHighSurrogate(c) /\ Len(str) >= 2 /\ IsLowSurrogate(str[2])
             THEN UTF8OfScalar(65536 + (c - 55296) * 1024 + (str[2] - 56320))
                      \o TextEncode(Tail(Tail(str)))
             ELSE IF IsHighSurrogate(c) \/ IsLowSurrogate(c)
             THEN UTF8OfScalar(65533) \o TextEncode(Tail(str))
             ELSE UTF8OfScalar(c) \o TextEncode(Tail(str))

\* the UTF-16 code units of one Unicode scalar value
UTF16OfScalar(cp) ==
    IF cp < 65536 THEN <<cp>>
    ELSE <<55296 + ((cp - 65536) \div 1024), 56320 + ((cp - 65536) % 1024)>>

\* the range a continuation byte must lie in: the first one after the lead
\* bytes E0, ED, F0 and F4 is narrower
ContinuationOk(lead, k, b) ==
    LET lo == IF k = 1 /\ lead = 224 THEN 160
              ELSE IF k = 1 /\ lead = 240 THEN 144 ELSE 128
        hi == IF k = 1 /\ lead = 237 THEN 159
              ELSE IF k = 1 /\ lead = 244 THEN 143 ELSE 191
    IN  b >= lo /\ b <= hi

\* how many continuation bytes a lead byte needs; 0 is no lead byte
Needed(lead) ==
    IF lead >= 194 /\ lead <= 223 THEN 1
    ELSE IF lead >= 224 /\ lead <= 239 THEN 2
    ELSE IF lead >= 240 /\ lead <= 244 THEN 3
    ELSE 0

\* how many of the bytes after the lead byte continue it
RECURSIVE Continued(_, _, _)
Continued(bytes, k, need) ==
    IF k > need \/ Len(bytes) < 1 + k THEN k - 1
    ELSE IF ContinuationOk(bytes[1], k, bytes[1 + k])
    THEN Continued(bytes, k + 1, need)
    ELSE k - 1

ScalarOf(bytes, need) ==
    IF need = 1 THEN (bytes[1] - 192) * 64 + (bytes[2] - 128)
    ELSE IF need = 2
    THEN (bytes[1] - 224) * 4096 + (bytes[2] - 128) * 64 + (bytes[3] - 128)
    ELSE (bytes[1] - 240) * 262144 + (bytes[2] - 128) * 4096
             + (bytes[3] - 128) * 64 + (bytes[4] - 128)

\* the UTF-8 decoder with replacement: an ill-formed subsequence becomes
\* one U+FFFD
RECURSIVE UTF8Decode(_)
UTF8Decode(bytes) ==
    IF bytes = <<>> THEN <<>>
    ELSE IF bytes[1] < 128
    THEN <<bytes[1]>> \o UTF8Decode(Tail(bytes))
    ELSE LET need == Needed(bytes[1])
             have == Continued(bytes, 1, need)
             rest == SubSeq(bytes, 2 + have, Len(bytes))
         IN  IF need > 0 /\ have = need
             THEN UTF16OfScalar(ScalarOf(bytes, need)) \o UTF8Decode(rest)
             ELSE <<65533>> \o UTF8Decode(rest)

\* new TextDecoder().decode: a leading byte order mark is dropped
TextDecode(bytes) ==
    IF Len(bytes) >= 3 /\ SubSeq(bytes, 1, 3) = <<239, 187, 191>>
    THEN UTF8Decode(SubSeq(bytes, 4, Len(bytes)))
    ELSE UTF8Decode(bytes)

\* btoa: every three bytes give four characters; a character is modelled
\* by its place in the group and the bytes it depends on, "=" by Padding
Padding == [k |-> 0, of |-> <<>>]

Base64Group(g) ==
    IF Len(g) = 3
    THEN << [k |-> 1, of |-> <<g[1]>>], [k |-> 2, of |-> <<g[1], g[2]>>],
            [k |-> 3, of |-> <<g[2], g[3]>>], [k |-> 4, of |-> <<g[3]>>] >>
    ELSE IF Len(g) = 2
    THEN << [k |-> 1, of |-> <<g[1]>>], [k |-> 2, of |-> <<g[1], g[2]>>],
            [k |-> 3, of |-> <<g[2]>>], Padding >>
    ELSE << [k |-> 1, of |-> <<g[1]>>], [k |-> 2, of |-> <<g[1]>>],
            Padding, Padding >>

RECURSIVE btoa(_)
btoa(binary) ==
    IF binary = <<>> THEN <<>>
    ELSE IF Len(binary) <= 3 THEN Base64Group(binary)
    ELSE Base64Group(SubSeq(binary, 1, 3))
             \o btoa(SubSeq(binary, 4, Len(binary)))

Last(seq) == seq[Len(seq)]

\* the characters of one group decode to the bytes they were made from
GroupBytes(q) ==
    IF Len(q) = 4 THEN <<q[1].of[1], Last(q[2].of), Last(q[4].of)>>
    ELSE IF Len(q) = 3 THEN <<q[1].of[1], Last(q[2].of)>>
    ELSE <<q[1].of[1]>>

\* atob without its padding: four characters give three bytes; text whose
\* characters do not fit together decodes to other bytes
RECURSIVE DecodeGroups(_)
DecodeGroups(text) ==
    IF text = <<>> THEN <<>>
    ELSE LET n == IF Len(text) >= 4 THEN 4 ELSE Len(text)
             q == SubSeq(text, 1, n)
             whole == btoa(GroupBytes(q))
         IN  (IF SubSeq(whole, 1, n) = q
              THEN GroupBytes(q)
              ELSE [j \in 1..(n - 1) |-> [garbled |-> q, at |-> j]])
                 \o DecodeGroups(SubSeq(text, n + 1, Len(text)))

StripPadding(text) ==
    IF Len(text) % 4 # 0 \/ text = <<>> THEN text
    ELSE IF text[Len(text)] # Padding THEN text
    ELSE IF text[Len(text) - 1] # Padding THEN SubSeq(text, 1, Len(text) - 1)
    ELSE SubSeq(text, 1, Len(text) - 2)

\* atob: InvalidCharacterError on text that is no Base64
atob(text) ==
    LET data == StripPadding(text)
    IN  IF Len(data) % 4 = 1 \/ (\E i \in 1..Len(data) : data[i] = Padding)
        THEN [ok |-> FALSE, error |-> "InvalidCharacterError"]
        ELSE [ok |-> TRUE, value |-> DecodeGroups(data)]

\* ------------------------------------------------------------------------
\* lib/crypto.ts
\* ------------------------------------------------------------------------

\* String.fromCharCode of each byte, then btoa
bufferToBase64(buffer) == btoa([i \in 1..Len(buffer) |-> buffer[i]])

\* atob, then charCodeAt of each character
base64ToBuffer(base64) ==
    LET binary == atob(base64)
    IN  IF binary.ok
        THEN [ok |-> TRUE,
              value |-> [i \in 1..Len(binary.value) |-> binary.value[i]]]
        ELSE binary

Bytes(n, b) == [i \in 1..n |-> b]

\* crypto.getRandomValues(new Uint8Array(16)): the values it may return
generateSalt == {Bytes(16, 17), Bytes(16, 200)}

\* crypto.getRandomValues(new Uint8Array(12))
generateIV == {Bytes(12, 3), Bytes(12, 250)}

\* PBKDF2 is taken to be free of collisions: two keys are the same key
\* exactly when they were derived from the same bytes, salt and parameters
deriveKey(masterPassword, salt) ==
    [name |-> "AES-GCM", length |-> 256,
     derivedBy |-> [name |-> "PBKDF2", hash |-> "SHA-256",
                    iterations |-> 100000, salt |-> salt,
                    keyMaterial |-> TextEncode(masterPassword)]]

\* crypto.subtle.encrypt with AES-GCM: as many bytes as the data, then the
\* 16 bytes of the tag. A ciphertext byte is known by key, nonce, position
\* and the data byte it hides, a tag byte by key, nonce and all the data.
AesGcmEncrypt(key, iv, data) ==
    [i \in 1..(Len(data) + 16) |->
        [key |-> key, iv |-> iv, at |-> i,
         of |-> IF i <= Len(data) THEN <<data[i]>> ELSE data]]

\* crypto.subtle.decrypt with AES-GCM: succeeds exactly on what
\* AesGcmEncrypt made of some data with this key and nonce
AesGcmDecrypt(key, iv, buffer) ==
    IF Len(buffer) < 16 THEN [ok |-> FALSE, error |-> "OperationError"]
    ELSE LET data == buffer[Len(buffer)].of
         IN  IF buffer = AesGcmEncrypt(key, iv, data)
             THEN [ok |-> TRUE, value |-> data]
             ELSE [ok |-> FALSE, error |-> "OperationError"]

\* salt and iv are what generateSalt() and generateIV() returned
encrypt(plaintext, masterPassword, salt, iv) ==
    LET key == deriveKey(masterPassword, salt)
        plaintextBytes == TextEncode(plaintext)
        ciphertextBuffer == AesGcmEncrypt(key, iv, plaintextBytes)
    IN  [ciphertext |-> bufferToBase64(ciphertextBuffer),
         iv |-> bufferToBase64(iv),
         salt |-> bufferToBase64(salt)]

IncorrectMasterPassword == "Incorrect master password. Unable to decrypt."

\* faulty variant: no try block, the failure of crypto.subtle.decrypt is
\* thrown as it is
decrypt_NoCatch(ciphertext, iv, salt, masterPassword) ==
    LET saltBuffer == base64ToBuffer(salt)
        ivBuffer == base64ToBuffer(iv)
        ciphertextBuffer == base64ToBuffer(ciphertext)
    IN  IF ~saltBuffer.ok THEN saltBuffer
        ELSE IF ~ivBuffer.ok THEN ivBuffer
        ELSE IF ~ciphertextBuffer.ok THEN ciphertextBuffer
        ELSE LET key == deriveKey(masterPassword, saltBuffer.value)
                 decryptedBuffer ==
                     AesGcmDecrypt(key, ivBuffer.value, ciphertextBuffer.value)
             IN  IF decryptedBuffer.ok
                 THEN [ok |-> TRUE, value |-> TextDecode(decryptedBuffer.value)]
                 ELSE decryptedBuffer

\* the outcome is the string returned, or the error thrown: the
\* InvalidCharacterError of atob, which is called outside the try block, or
\* the Error of the catch block
decrypt(ciphertext, iv, salt, masterPassword) ==
    LET saltBuffer == base64ToBuffer(salt)
        ivBuffer == base64ToBuffer(iv)
        ciphertextBuffer == base64ToBuffer(ciphertext)
    IN  IF ~saltBuffer.ok THEN saltBuffer
        ELSE IF ~ivBuffer.ok THEN ivBuffer
        ELSE IF ~ciphertextBuffer.ok THEN ciphertextBuffer
        ELSE LET key == deriveKey(masterPassword, saltBuffer.value)
                 decryptedBuffer ==
                     AesGcmDecrypt(key, ivBuffer.value, ciphertextBuffer.value)
             IN  IF decryptedBuffer.ok
                 THEN [ok |-> TRUE, value |-> TextDecode(decryptedBuffer.value)]
                 ELSE [ok |-> FALSE, error |-> IncorrectMasterPassword]

\* ------------------------------------------------------------------------
\* CreateProjectModal and the project page: constants and inputs
\* ------------------------------------------------------------------------

\* '__dotenv_verify__' as CreateProjectModal declares it
CreateProjectModal_VERIFICATION_STRING ==
    <<95, 95, 100, 111, 116, 101, 110, 118, 95, 118, 101, 114, 105, 102, 121,
      95, 95>>

\* '__dotenv_verify__' as the project page declares it
VERIFICATION_STRING ==
    <<95, 95, 100, 111, 116, 101, 110, 118, 95, 118, 101, 114, 105, 102, 121,
      95, 95>>

\* the project the page shows (useParams().id)
pageProjectId == "A"

Repeat(n, c) == [i \in 1..n |-> c]

\* what may be typed into a password field: "aaaaaaaa", "aaaaaaab", two
\* strings that begin with an unpaired surrogate (U+D800, U+DC00), a short
\* one and the empty one
Passwords ==
    { Repeat(8, 97),
      Repeat(7, 97) \o <<98>>,
      <<55296>> \o Repeat(7, 97),
      <<56320>> \o Repeat(7, 97),
      Repeat(3, 97),
      <<>> }

\* project names: "", "  " and "p"
Names == { <<>>, <<32, 32>>, <<112>> }

IsWhiteSpace(c) == c \in {9, 10, 11, 12, 13, 32, 160, 5760, 8232, 8233, 65279}

\* String.prototype.trim
RECURSIVE trim(_)
trim(str) ==
    IF str = <<>> THEN str
    ELSE IF IsWhiteSpace(Head(str)) THEN trim(Tail(str))
    ELSE IF IsWhiteSpace(Last(str)) THEN trim(SubSeq(str, 1, Len(str) - 1))
    ELSE str

\* a row of the projects table, as far as the page reads it
ProjectRow(verification) ==
    [mp_verify |-> Some(verification.ciphertext),
     mp_iv |-> Some(verification.iv),
     mp_salt |-> Some(verification.salt)]

\* a row from before verification existed
LegacyRow == [mp_verify |-> Null, mp_iv |-> Null, mp_salt |-> Null]

\* a row whose verification columns hold the envelope of some other text
\* ("x") under the password "aaaaaaaa": the table is written outside the
\* page, which must not take such a row for verified
ForeignRow ==
    ProjectRow(encrypt(<<120>>, Repeat(8, 97), Bytes(16, 17), Bytes(12, 3)))

\* a row whose verification record cannot be decoded: the envelope of the
\* verification string under "aaaaaaaa" with a salt that is no Base64 text
MalformedRow ==
    [ProjectRow(encrypt(VERIFICATION_STRING, Repeat(8, 97), Bytes(16, 17),
                        Bytes(12, 3)))
        EXCEPT !.mp_salt = Some(<<Padding>> \o @[1])]

\* JavaScript truthiness of a nullable string: null and '' are falsy
TruthyString(x) == x # Null /\ x[1] # <<>>

\* ------------------------------------------------------------------------
\* State
\* ------------------------------------------------------------------------

VARIABLES
    now,          \* Date.now(), epoch milliseconds
    clockSteps,   \* how often the clock advanced
    localStorage, \* the browser's storage: items (storage key -> Null or
                  \* Some(item)) and how its methods fail
    call,         \* the last lockout call: operation, project, time, the
                  \* project's record before the call, value returned
    streak,       \* per project: recordFailedAttempt calls that stored a
                  \* record since its record was last absent
    remote,       \* the project's row in the projects table, Null before
                  \* the project exists
    createdWith,  \* the master password CreateProjectModal created it with
    view,         \* "dashboard" or "project": the page that is open
    project,      \* ProjectPage state: the fetched row
    loading,      \* ProjectPage state
    masterPassword, \* ProjectPage state: the session master password
    unlocking,    \* ProjectPage state
    locked,       \* ProjectPage state
    lockRemainingMs, \* ProjectPage state
    attemptsLeft, \* ProjectPage state
    pending,      \* the password of the handleUnlock awaiting decrypt
    event,        \* the last thing the pages did
    sealed,       \* the arguments of the last encrypt call
    envelope,     \* the EncryptedData it returned, as it is stored now
    altered,      \* what was done to the envelope since
    opened,       \* the last decrypt call on it: candidate and outcome
    secrets,      \* the rows of the project in the secrets table
    sent,         \* the last insert or update the remote store accepted
    entered,      \* what the form that sent it was submitted with, and
                  \* for an update the id, iv and salt the row had
    submission,   \* CreateProjectModal: the fields of the form at its last
                  \* submit and the calls handleSubmit made
    projects,     \* DashboardPage state: the names of the listed projects
    deleteTarget, \* DashboardPage state: the project DeleteProjectModal
                  \* is open for
    nameInput,    \* DeleteProjectModal state
    confirmInput, \* DeleteProjectModal state
    deletion,     \* the last submit of DeleteProjectModal: the inputs it
                  \* found and whether it called onConfirm
    revealed,     \* SecretRow state
    rowValue,     \* SecretRow state 'value': the plaintext it holds
    decrypting,   \* SecretRow state
    hideTimer,    \* SecretRow ref: the id of the timeout set last
    timers,       \* the timeouts that are set and have not fired: id, due
    nextTimer,    \* the id the next setTimeout returns
    shown         \* the last reveal: when it showed the value, the timeout
                  \* it set, and the timeout that hid the row since

guardVars == <<call, streak>>

pageVars ==
    <<remote, createdWith, view, project, loading, masterPassword, unlocking,
      locked, lockRemainingMs, attemptsLeft, pending, event>>

reactVars ==
    <<project, loading, masterPassword, unlocking, locked, lockRemainingMs,
      attemptsLeft>>

cryptoVars == <<sealed, envelope, altered, opened>>

secretVars == <<secrets, sent, entered>>

modalVars == <<submission>>

deleteVars == <<projects, deleteTarget, nameInput, confirmInput, deletion>>

rowVars ==
    <<revealed, rowValue, decrypting, hideTimer, timers, nextTimer, shown>>

uiVars == <<modalVars, deleteVars, rowVars>>

vars ==
    <<now, clockSteps, localStorage, guardVars, pageVars, cryptoVars,
      secretVars, uiVars>>

\* the project's record cannot be read: getItem throws or the item does
\* not parse
Unreadable(ls, p) ==
    \/ "getItem" \in ls.throws
    \/ LET raw == ls.items[storageKey(p)]
       IN  raw # Null /\ ~IsJSON(raw[1])

NoCall ==
    [op |-> "none", projectId |-> "A", at |-> 0, before |-> Null,
     ret |-> Null, throws |-> {}, unreadable |-> FALSE]

Called(op, p, ret) ==
    [op |-> op, projectId |-> p, at |-> now,
     before |-> getLockoutState(localStorage, p), ret |-> ret,
     throws |-> localStorage.throws,
     unreadable |-> Unreadable(localStorage, p)]

NoEvent == [type |-> "none", password |-> <<>>, before |-> Null]

Happened(type, password) ==
    [type |-> type, password |-> password,
     before |-> getLockoutState(localStorage, pageProjectId)]

\* nothing opened yet, nothing stored
PagesClosed ==
    /\ createdWith = Null
    /\ view = "dashboard"
    /\ project = Null
    /\ loading = TRUE
    /\ masterPassword = Null
    /\ unlocking = FALSE
    /\ locked = FALSE
    /\ lockRemainingMs = 0
    /\ attemptsLeft = MAX_ATTEMPTS
    /\ pending = Null
    /\ event = NoEvent

NoInput == [names |-> <<>>, values |-> <<>>, password |-> <<>>, old |-> Null]

\* no secret stored, nothing sent
NothingSent ==
    /\ secrets = <<>>
    /\ sent = Null
    /\ entered = NoInput

\* CreateProjectModal has not been submitted
NoSubmission ==
    [name |-> <<>>, masterPassword |-> <<>>, confirmPassword |-> <<>>,
     encrypted |-> <<>>, inserts |-> 0]

\* the text 'Pr'
ListedName == <<80, 114>>

\* the dashboard lists two projects whose names differ in case only: 'Pr'
\* and 'pr'
ListedProjects == { ListedName, <<112, 114>> }

NoDeletion ==
    [projectName |-> <<>>, nameInput |-> <<>>, confirmInput |-> <<>>,
     onConfirm |-> FALSE, submits |-> 0]

NothingShown == [at |-> 0, timer |-> 0, hiddenBy |-> 0]

\* no modal has been used, no secret revealed
UiIdle ==
    /\ submission = NoSubmission
    /\ projects = ListedProjects
    /\ deleteTarget = Null
    /\ nameInput = <<>>
    /\ confirmInput = <<>>
    /\ deletion = NoDeletion
    /\ revealed = FALSE
    /\ rowValue = <<>>
    /\ decrypting = FALSE
    /\ hideTimer = Null
    /\ timers = {}
    /\ nextTimer = 1
    /\ shown = NothingShown

\* encrypt has not been called
NothingSealed ==
    /\ sealed = Null
    /\ envelope = Null
    /\ altered = "intact"
    /\ opened = Null

Init ==
    /\ now = 0
    /\ clockSteps = 0
    /\ localStorage = EmptyStorage
    /\ call = NoCall
    /\ streak = [p \in Projects |-> 0]
    /\ remote = Null
    /\ PagesClosed
    /\ NothingSealed
    /\ NothingSent
    /\ UiIdle

\* ------------------------------------------------------------------------
\* The lockout functions called directly, in any order
\* ------------------------------------------------------------------------

\* the streak of a project ends when its record is gone
StreakAfter(ls, p, n) == IF ls.items[storageKey(p)] = Null THEN 0 ELSE n

AdvanceClock ==
    /\ clockSteps < MaxClockSteps
    /\ \E d \in ClockSteps : now' = now + d
    /\ clockSteps' = clockSteps + 1
    /\ UNCHANGED <<cryptoVars, secretVars, uiVars>>
    /\ UNCHANGED <<localStorage, guardVars, pageVars>>

CallIsLockedOut(p) ==
    LET r == isLockedOut(localStorage, p, now)
    IN  /\ localStorage' = r.ls
        /\ call' = Called("isLockedOut", p, Some(r.ret))
        /\ streak' = [streak EXCEPT ![p] = StreakAfter(r.ls, p, @)]
        /\ UNCHANGED <<cryptoVars, secretVars, uiVars>>
        /\ UNCHANGED <<now, clockSteps, pageVars>>

CallRecordFailedAttempt(p) ==
    LET r == recordFailedAttempt(localStorage, p, now)
        st == getLockoutState(localStorage, p)
    IN  /\ (IF st = Null THEN 0 ELSE st[1].attempts) < MaxRecorded
        /\ localStorage' = r.ls
        /\ call' = Called("recordFailedAttempt", p, Some(r.ret))
        /\ streak' = [streak EXCEPT
                          ![p] = IF r.ls = localStorage THEN @
                                 ELSE IF st = Null THEN 1
                                 ELSE @ + 1]
        /\ UNCHANGED <<cryptoVars, secretVars, uiVars>>
        /\ UNCHANGED <<now, clockSteps, pageVars>>

CallGetRemainingAttempts(p) ==
    /\ call' = Called("getRemainingAttempts", p,
                      Some(getRemainingAttempts(localStorage, p, now)))
    /\ UNCHANGED <<cryptoVars, secretVars, uiVars>>
    /\ UNCHANGED <<now, clockSteps, localStorage, streak, pageVars>>

CallClearLockout(p) ==
    /\ localStorage' = clearLockout(localStorage, p)
    /\ call' = Called("clearLockout", p, Null)
    /\ streak' = [streak EXCEPT ![p] = 0]
    /\ UNCHANGED <<cryptoVars, secretVars, uiVars>>
    /\ UNCHANGED <<now, clockSteps, pageVars>>

Next ==
    \/ AdvanceClock
    \/ \E p \in Projects : CallIsLockedOut(p)
    \/ \E p \in Projects : CallRecordFailedAttempt(p)
    \/ \E p \in Projects : CallGetRemainingAttempts(p)
    \/ \E p \in Projects : CallClearLockout(p)

Spec == Init /\ [][Next]_vars

\* ------------------------------------------------------------------------
\* The lockout functions over a storage that fails
\* ------------------------------------------------------------------------

\* the ways the storage fails: not at all, one method, or every method
FaultSets ==
    {{}, {"getItem"}, {"setItem"}, {"removeItem"}, StorageMethods}

\* the storage starts or stops failing
StorageFault ==
    /\ \E f \in FaultSets \ {localStorage.throws} :
           localStorage' = [localStorage EXCEPT !.throws = f]
    /\ UNCHANGED <<cryptoVars, secretVars, uiVars>>
    /\ UNCHANGED <<now, clockSteps, guardVars, pageVars>>

\* the project's item is overwritten with text that is not JSON
CorruptItem(p) ==
    /\ localStorage.items[storageKey(p)] # Some(Unparseable)
    /\ localStorage' =
           [localStorage EXCEPT !.items[storageKey(p)] = Some(Unparseable)]
    /\ UNCHANGED <<cryptoVars, secretVars, uiVars>>
    /\ UNCHANGED <<now, clockSteps, guardVars, pageVars>>

FaultyNext ==
    \/ AdvanceClock
    \/ StorageFault
    \/ CorruptItem(pageProjectId)
    \/ CallIsLockedOut(pageProjectId)
    \/ CallRecordFailedAttempt(pageProjectId)
    \/ CallGetRemainingAttempts(pageProjectId)
    \/ CallClearLockout(pageProjectId)

FaultySpec == Init /\ [][FaultyNext]_vars

\* ------------------------------------------------------------------------
\* CreateProjectModal and ProjectPage
\* ------------------------------------------------------------------------

\* the signed-in user's id
UserId == "user"

\* what CreateProjectModal sends to the projects table
ProjectInsert(name, verification) ==
    [table |-> "projects", op |-> "insert",
     rows |-> << [name |-> trim(name),
                  user_id |-> UserId,
                  mp_verify |-> verification.ciphertext,
                  mp_iv |-> verification.iv,
                  mp_salt |-> verification.salt] >>]

\* faulty variant: the confirmation is not compared
SubmitRejected_IgnoresConfirmation(name, password, confirmPassword) ==
    IF trim(name) = <<>>
    THEN Some("Project name is required")
    ELSE IF Len(password) < 8
    THEN Some("Master password must be at least 8 characters")
    ELSE Null

\* the three checks handleSubmit makes before it does anything: the toast
\* of the first that fails, Null when all pass
SubmitRejected(name, password, confirmPassword) ==
    IF trim(name) = <<>>
    THEN Some("Project name is required")
    ELSE IF Len(password) < 8
    THEN Some("Master password must be at least 8 characters")
    ELSE IF password # confirmPassword
    THEN Some("Passwords do not match")
    ELSE Null

\* the form as submitted, the encrypt calls made and the inserts sent
Submitted(name, password, confirmPassword, encrypted, inserts) ==
    [name |-> name, masterPassword |-> password,
     confirmPassword |-> confirmPassword,
     encrypted |-> encrypted, inserts |-> inserts]

\* CreateProjectModal.handleSubmit; the signed-in user and the insert are
\* the remote store's to decide
CreateProjectSubmit ==
    /\ view = "dashboard"
    /\ remote = Null
    /\ \E name \in Names, password \in Passwords, confirmPassword \in Passwords :
        LET rejected == SubmitRejected(name, password, confirmPassword)
            marker == [plaintext |-> CreateProjectModal_VERIFICATION_STRING,
                       masterPassword |-> password]
        IN
        IF rejected # Null
        THEN /\ event' = Happened(rejected[1], password)
             /\ submission' =
                    Submitted(name, password, confirmPassword, <<>>, 0)
             /\ UNCHANGED <<remote, createdWith, sent, entered>>
        ELSE \E salt \in generateSalt, iv \in generateIV,
                user \in BOOLEAN, inserted \in BOOLEAN :
                LET verification ==
                        encrypt(CreateProjectModal_VERIFICATION_STRING,
                                password, salt, iv)
                IN  IF ~user
                    THEN /\ event' = Happened("Not authenticated", password)
                         /\ submission' =
                                Submitted(name, password, confirmPassword,
                                          <<marker>>, 0)
                         /\ UNCHANGED <<remote, createdWith, sent, entered>>
                    ELSE IF ~inserted
                    THEN /\ event' = Happened("insert failed", password)
                         /\ submission' =
                                Submitted(name, password, confirmPassword,
                                          <<marker>>, 1)
                         /\ UNCHANGED <<remote, createdWith, sent, entered>>
                    ELSE /\ remote' = Some(ProjectRow(verification))
                         /\ createdWith' = Some(password)
                         /\ event' = Happened("Project created", password)
                         /\ submission' =
                                Submitted(name, password, confirmPassword,
                                          <<marker>>, 1)
                         /\ sent' = Some(ProjectInsert(name, verification))
                         /\ entered' =
                                [names |-> <<name>>,
                                 values |->
                                   <<CreateProjectModal_VERIFICATION_STRING>>,
                                 password |-> password, old |-> Null]
    /\ UNCHANGED <<cryptoVars, secrets, deleteVars, rowVars>>
    /\ UNCHANGED <<now, clockSteps, localStorage, guardVars, view, reactVars,
                   pending>>

\* faulty variant: an open project is always shown with all attempts left
refreshLockoutState_AllAttempts(ls, t) ==
    LET lockout == isLockedOut(ls, pageProjectId, t)
    IN  [ls |-> lockout.ls,
         locked |-> lockout.ret.locked,
         lockRemainingMs |-> lockout.ret.remainingMs,
         attemptsLeft |-> IF ~lockout.ret.locked THEN MAX_ATTEMPTS ELSE 0]

\* refreshLockoutState: the storage it leaves and the state it sets
refreshLockoutState(ls, t) ==
    LET lockout == isLockedOut(ls, pageProjectId, t)
    IN  [ls |-> lockout.ls,
         locked |-> lockout.ret.locked,
         lockRemainingMs |-> lockout.ret.remainingMs,
         attemptsLeft |-> IF ~lockout.ret.locked
                          THEN getRemainingAttempts(lockout.ls, pageProjectId, t)
                          ELSE 0]

\* the project page is opened or reloaded: fresh component state, the
\* mount effect runs refreshLockoutState, fetchData starts
OpenProjectPage ==
    LET r == refreshLockoutState(localStorage, now)
    IN  /\ remote # Null
        /\ view' = "project"
        /\ project' = Null
        /\ loading' = TRUE
        /\ masterPassword' = Null
        /\ unlocking' = FALSE
        /\ pending' = Null
        /\ localStorage' = r.ls
        /\ locked' = r.locked
        /\ lockRemainingMs' = r.lockRemainingMs
        /\ attemptsLeft' = r.attemptsLeft
        /\ event' = Happened("mount", <<>>)
        /\ UNCHANGED <<cryptoVars, secretVars, uiVars>>
        /\ UNCHANGED <<now, clockSteps, guardVars, remote, createdWith>>

\* fetchData ends: the row is there, or the page leaves for the dashboard
FetchData ==
    /\ view = "project"
    /\ loading
    /\ \E found \in BOOLEAN :
        IF found
        THEN /\ project' = remote
             /\ loading' = FALSE
             /\ view' = view
             /\ event' = Happened("fetched", <<>>)
        ELSE /\ view' = "dashboard"
             /\ UNCHANGED <<project, loading>>
             /\ event' = Happened("Project not found", <<>>)
    /\ UNCHANGED <<cryptoVars, secretVars, uiVars>>
    /\ UNCHANGED <<now, clockSteps, localStorage, guardVars, remote,
                   createdWith, masterPassword, unlocking, locked,
                   lockRemainingMs, attemptsLeft, pending>>

\* faulty variant: the tick that finds the lock over only zeroes the display
CountdownTick_StaysLocked ==
    LET lockout == isLockedOut(localStorage, pageProjectId, now)
    IN  /\ view = "project"
        /\ locked
        /\ localStorage' = lockout.ls
        /\ IF ~lockout.ret.locked
           THEN /\ lockRemainingMs' = 0
                /\ event' = Happened("Lockout expired. You can try again.", <<>>)
                /\ UNCHANGED <<locked, attemptsLeft>>
           ELSE /\ lockRemainingMs' = lockout.ret.remainingMs
                /\ event' = Happened("tick", <<>>)
                /\ UNCHANGED <<locked, attemptsLeft>>
        /\ UNCHANGED <<cryptoVars, secretVars, uiVars>>
        /\ UNCHANGED <<now, clockSteps, guardVars, remote, createdWith, view,
                       project, loading, masterPassword, unlocking, pending>>

\* the countdown effect has an interval set: the page is mounted and its
\* last render had locked set
countdownInterval == view = "project" /\ locked

\* one firing of the interval of the countdown effect
CountdownTick ==
    LET lockout == isLockedOut(localStorage, pageProjectId, now)
    IN  /\ countdownInterval
        /\ localStorage' = lockout.ls
        /\ IF ~lockout.ret.locked
           THEN /\ locked' = FALSE
                /\ lockRemainingMs' = 0
                /\ attemptsLeft' =
                       getRemainingAttempts(lockout.ls, pageProjectId, now)
                /\ event' = Happened("Lockout expired. You can try again.", <<>>)
           ELSE /\ lockRemainingMs' = lockout.ret.remainingMs
                /\ event' = Happened("tick", <<>>)
                /\ UNCHANGED <<locked, attemptsLeft>>
        /\ UNCHANGED <<cryptoVars, secretVars, uiVars>>
        /\ UNCHANGED <<now, clockSteps, guardVars, remote, createdWith, view,
                       project, loading, masterPassword, unlocking, pending>>

\* faulty variant: a project without a verification record is verified
\* like any other
SubmitPassword_VerifiesLegacy(password) ==
    /\ view = "project"
    /\ ~loading
    /\ masterPassword = Null
    /\ ~locked
    /\ ~unlocking
    /\ IF password = <<>> \/ locked
       THEN /\ event' = Happened("ignored", password)
            /\ UNCHANGED <<localStorage, masterPassword, unlocking, pending>>
       ELSE /\ unlocking' = TRUE
            /\ pending' = Some(password)
            /\ event' = Happened("verifying", password)
            /\ UNCHANGED <<localStorage, masterPassword>>
    /\ UNCHANGED <<cryptoVars, secretVars, uiVars>>
    /\ UNCHANGED <<now, clockSteps, guardVars, remote, createdWith, view,
                   project, loading, locked, lockRemainingMs, attemptsLeft>>

\* faulty variant: the form is shown and submitted while locked out
SubmitPassword_WhileLocked(password) ==
    /\ view = "project"
    /\ ~loading
    /\ masterPassword = Null
    /\ ~unlocking
    /\ IF password = <<>>
       THEN /\ event' = Happened("ignored", password)
            /\ UNCHANGED <<localStorage, masterPassword, unlocking, pending>>
       ELSE IF ~TruthyString(project[1].mp_verify)
       THEN /\ localStorage' = clearLockout(localStorage, pageProjectId)
            /\ masterPassword' = Some(password)
            /\ unlocking' = FALSE
            /\ pending' = Null
            /\ event' = Happened("accepted unverified", password)
       ELSE /\ unlocking' = TRUE
            /\ pending' = Some(password)
            /\ event' = Happened("verifying", password)
            /\ UNCHANGED <<localStorage, masterPassword>>
    /\ UNCHANGED <<cryptoVars, secretVars, uiVars>>
    /\ UNCHANGED <<now, clockSteps, guardVars, remote, createdWith, view,
                   project, loading, locked, lockRemainingMs, attemptsLeft>>

\* MasterPasswordModal.handleSubmit and handleUnlock up to its await. The
\* modal is rendered while there is no session password, its form while
\* not locked out, and its button is enabled while not loading.
SubmitPassword(password) ==
    /\ view = "project"
    /\ ~loading
    /\ masterPassword = Null
    /\ ~locked
    /\ ~unlocking
    /\ IF password = <<>> \/ locked
       THEN /\ event' = Happened("ignored", password)
            /\ UNCHANGED <<localStorage, masterPassword, unlocking, pending>>
       ELSE IF ~TruthyString(project[1].mp_verify)
       THEN /\ localStorage' = clearLockout(localStorage, pageProjectId)
            /\ masterPassword' = Some(password)
            /\ unlocking' = FALSE
            /\ pending' = Null
            /\ event' = Happened("accepted unverified", password)
       ELSE /\ unlocking' = TRUE
            /\ pending' = Some(password)
            /\ event' = Happened("verifying", password)
            /\ UNCHANGED <<localStorage, masterPassword>>
    /\ UNCHANGED <<cryptoVars, secretVars, uiVars>>
    /\ UNCHANGED <<now, clockSteps, guardVars, remote, createdWith, view,
                   project, loading, locked, lockRemainingMs, attemptsLeft>>

\* faulty variant: any record that decrypts counts as verified
Verified_AnyPlaintext(row, password) ==
    decrypt(row.mp_verify[1], row.mp_iv[1], row.mp_salt[1], password).ok

\* the try block of handleUnlock: decrypt does not throw and returns the
\* verification string
Verified(row, password) ==
    LET result == decrypt(row.mp_verify[1], row.mp_iv[1], row.mp_salt[1],
                          password)
    IN  result.ok /\ result.value = VERIFICATION_STRING

\* faulty variant: a successful unlock leaves the lockout record alone
UnlockSucceeds_KeepsRecord(password) ==
    /\ masterPassword' = Some(password)
    /\ attemptsLeft' = MAX_ATTEMPTS
    /\ locked' = FALSE
    /\ event' = Happened("Project unlocked", password)
    /\ UNCHANGED <<localStorage, lockRemainingMs>>

\* handleUnlock after a successful verification
UnlockSucceeds(password) ==
    /\ localStorage' = clearLockout(localStorage, pageProjectId)
    /\ masterPassword' = Some(password)
    /\ attemptsLeft' = MAX_ATTEMPTS
    /\ locked' = FALSE
    /\ event' = Happened("Project unlocked", password)
    /\ UNCHANGED lockRemainingMs

\* faulty variant: the catch block counts the failure twice
UnlockFails_CountsTwice(password) ==
    LET first == recordFailedAttempt(localStorage, pageProjectId, now)
        result == recordFailedAttempt(first.ls, pageProjectId, now)
        r == refreshLockoutState(result.ls, now)
    IN  /\ IF result.ret.locked
           THEN /\ localStorage' = r.ls
                /\ locked' = r.locked
                /\ lockRemainingMs' = r.lockRemainingMs
                /\ attemptsLeft' = r.attemptsLeft
           ELSE /\ localStorage' = result.ls
                /\ attemptsLeft' = MAX_ATTEMPTS - result.ret.attempts
                /\ UNCHANGED <<locked, lockRemainingMs>>
        /\ event' = Happened("Incorrect password", password)
        /\ UNCHANGED masterPassword

\* faulty variant: the catch block never refreshes the lockout state
UnlockFails_NoRefresh(password) ==
    LET result == recordFailedAttempt(localStorage, pageProjectId, now)
    IN  /\ localStorage' = result.ls
        /\ attemptsLeft' = MAX_ATTEMPTS - result.ret.attempts
        /\ UNCHANGED <<locked, lockRemainingMs>>
        /\ event' = Happened("Incorrect password", password)
        /\ UNCHANGED masterPassword

\* the catch block of handleUnlock
UnlockFails(password) ==
    LET result == recordFailedAttempt(localStorage, pageProjectId, now)
        r == refreshLockoutState(result.ls, now)
    IN  /\ IF result.ret.locked
           THEN /\ localStorage' = r.ls
                /\ locked' = r.locked
                /\ lockRemainingMs' = r.lockRemainingMs
                /\ attemptsLeft' = r.attemptsLeft
           ELSE /\ localStorage' = result.ls
                /\ attemptsLeft' = MAX_ATTEMPTS - result.ret.attempts
                /\ UNCHANGED <<locked, lockRemainingMs>>
        /\ event' = Happened("Incorrect password", password)
        /\ UNCHANGED masterPassword

\* handleUnlock from the moment decrypt settles
UnlockSettles ==
    /\ pending # Null
    /\ IF Verified(project[1], pending[1])
       THEN UnlockSucceeds(pending[1])
       ELSE UnlockFails(pending[1])
    /\ unlocking' = FALSE
    /\ pending' = Null
    /\ UNCHANGED <<cryptoVars, secretVars, uiVars>>
    /\ UNCHANGED <<now, clockSteps, guardVars, remote, createdWith, view,
                   project, loading>>

\* the row the project has before the pages are used: none yet (it is then
\* created through CreateProjectModal), a legacy row or a foreign row
PageInit ==
    /\ now = 0
    /\ clockSteps = 0
    /\ localStorage = EmptyStorage
    /\ call = NoCall
    /\ streak = [p \in Projects |-> 0]
    /\ remote \in {Null, Some(LegacyRow), Some(ForeignRow),
                   Some(MalformedRow)}
    /\ PagesClosed
    /\ NothingSealed
    /\ NothingSent
    /\ UiIdle

PageNext ==
    \/ AdvanceClock
    \/ CreateProjectSubmit
    \/ OpenProjectPage
    \/ FetchData
    \/ CountdownTick
    \/ \E password \in Passwords : SubmitPassword(password)
    \/ UnlockSettles

PageSpec == PageInit /\ [][PageNext]_vars

\* the pages with a timer that keeps firing: an interval that stays set
\* fires again
PageFairSpec == PageSpec /\ WF_vars(CountdownTick)

\* ------------------------------------------------------------------------
\* AddSecretModal and UploadEnvModal on the unlocked project page
\* ------------------------------------------------------------------------

\* String.prototype.toUpperCase on ASCII text
ToUpperCase(text) ==
    [i \in 1..Len(text) |->
        IF text[i] \in 97..122 THEN text[i] - 32 ELSE text[i]]

\* key names typed into the form: "" and " k"
KeyNames == { <<>>, <<32, 107>> }

\* secret values typed into the form: "" and "v"
SecretValues == { <<>>, <<118>> }

\* the entries parsed from the chosen file: "K=v" and "B="
EnvFiles ==
    { << [key |-> <<75>>, value |-> <<118>>],
         [key |-> <<66>>, value |-> <<>>] >> }

\* Date.prototype.toISOString
toISOString(t) == [iso |-> t]

\* the record AddSecretModal inserts
SecretInsert(projectId, key, encrypted) ==
    [project_id |-> projectId,
     key_name |-> key,
     encrypted_value |-> encrypted.ciphertext,
     iv |-> encrypted.iv,
     salt |-> encrypted.salt]

\* faulty variant: the update carries the new ciphertext only
SecretUpdate_CiphertextOnly(key, encrypted, t) ==
    [key_name |-> key,
     encrypted_value |-> encrypted.ciphertext,
     updated_at |-> toISOString(t)]

\* the columns AddSecretModal updates in edit mode
SecretUpdate(key, encrypted, t) ==
    [key_name |-> key,
     encrypted_value |-> encrypted.ciphertext,
     iv |-> encrypted.iv,
     salt |-> encrypted.salt,
     updated_at |-> toISOString(t)]

\* the record UploadEnvModal builds for one entry
ImportRecord(projectId, entry, encrypted) ==
    [project_id |-> projectId,
     key_name |-> entry.key,
     encrypted_value |-> encrypted.ciphertext,
     iv |-> encrypted.iv,
     salt |-> encrypted.salt]

\* the remote store's update: the columns sent replace those of the row
Updated(row, columns) ==
    [f \in DOMAIN row |-> IF f \in DOMAIN columns THEN columns[f] ELSE row[f]]

\* the page renders its secrets and modals once it has a master password
Unlocked == view = "project" /\ ~loading /\ masterPassword # Null

\* faulty variant: the record carries the master password
AddSecretSubmit_SendsPassword(keyName, value) ==
    /\ Unlocked
    /\ Len(secrets) < MaxSecrets
    /\ LET key == ToUpperCase(trim(keyName))
       IN  IF key = <<>> \/ value = <<>>
           THEN UNCHANGED secretVars
           ELSE \E inserted \in BOOLEAN :
               IF ~inserted THEN UNCHANGED secretVars
               ELSE \E salt \in generateSalt, iv \in generateIV :
                   LET encrypted ==
                           encrypt(value, masterPassword[1], salt, iv)
                       record ==
                           [project_id |-> pageProjectId,
                            key_name |-> key,
                            encrypted_value |-> encrypted.ciphertext,
                            iv |-> encrypted.iv,
                            salt |-> encrypted.salt,
                            master_password |-> masterPassword[1]]
                   IN  /\ secrets' = Append(secrets, record)
                       /\ sent' = Some([table |-> "secrets",
                                        op |-> "insert",
                                        rows |-> <<record>>])
                       /\ entered' = [names |-> <<keyName>>,
                                      values |-> <<value>>,
                                      password |-> masterPassword[1],
                                      old |-> Null]
    /\ UNCHANGED <<now, clockSteps, localStorage, guardVars, pageVars,
                   cryptoVars, uiVars>>

\* AddSecretModal.handleSubmit without editMode; the insert may fail
AddSecretSubmit(keyName, value) ==
    /\ Unlocked
    /\ Len(secrets) < MaxSecrets
    /\ LET key == ToUpperCase(trim(keyName))
       IN  IF key = <<>> \/ value = <<>>
           THEN UNCHANGED secretVars
           ELSE \E inserted \in BOOLEAN :
               IF ~inserted THEN UNCHANGED secretVars
               ELSE \E salt \in generateSalt, iv \in generateIV :
                   LET encrypted ==
                           encrypt(value, masterPassword[1], salt, iv)
                       record == SecretInsert(pageProjectId, key, encrypted)
                   IN  /\ secrets' = Append(secrets, record)
                       /\ sent' = Some([table |-> "secrets",
                                        op |-> "insert",
                                        rows |-> <<record>>])
                       /\ entered' = [names |-> <<keyName>>,
                                      values |-> <<value>>,
                                      password |-> masterPassword[1],
                                      old |-> Null]
    /\ UNCHANGED <<now, clockSteps, localStorage, guardVars, pageVars,
                   cryptoVars, uiVars>>

\* SecretRow.handleEdit, which opens the modal once the secret decrypts,
\* and AddSecretModal.handleSubmit with editMode
EditSecretSubmit(id, keyName, value) ==
    /\ Unlocked
    /\ id \in 1..Len(secrets)
    /\ decrypt(secrets[id].encrypted_value, secrets[id].iv, secrets[id].salt,
               masterPassword[1]).ok
    /\ LET key == ToUpperCase(trim(keyName))
       IN  IF key = <<>> \/ value = <<>>
           THEN UNCHANGED secretVars
           ELSE \E updated \in BOOLEAN :
               IF ~updated THEN UNCHANGED secretVars
               ELSE \E salt \in generateSalt, iv \in generateIV :
                   LET encrypted ==
                           encrypt(value, masterPassword[1], salt, iv)
                       columns == SecretUpdate(key, encrypted, now)
                   IN  /\ secrets' =
                              [secrets EXCEPT ![id] = Updated(@, columns)]
                       /\ sent' = Some([table |-> "secrets",
                                        op |-> "update",
                                        rows |-> <<columns>>])
                       /\ entered' =
                              [names |-> <<keyName>>,
                               values |-> <<value>>,
                               password |-> masterPassword[1],
                               old |-> Some([id |-> id,
                                             iv |-> secrets[id].iv,
                                             salt |-> secrets[id].salt])]
    /\ UNCHANGED <<now, clockSteps, localStorage, guardVars, pageVars,
                   cryptoVars, uiVars>>

\* UploadEnvModal.handleImport: the entries whose key the project does not
\* have yet are encrypted one by one and inserted together
ImportEnv(file) ==
    /\ Unlocked
    /\ LET existingKeys == {secrets[i].key_name : i \in 1..Len(secrets)}
           IsNew(entry) == entry.key \notin existingKeys
           toImport == SelectSeq(file, IsNew)
           n == Len(toImport)
       IN  /\ Len(secrets) + n <= MaxSecrets
           /\ IF n = 0
              THEN UNCHANGED secretVars
              ELSE \E inserted \in BOOLEAN :
                  IF ~inserted THEN UNCHANGED secretVars
                  ELSE \E drawn \in [1..n -> generateSalt \X generateIV] :
                      LET records ==
                              [j \in 1..n |->
                                  ImportRecord(pageProjectId, toImport[j],
                                      encrypt(toImport[j].value,
                                              masterPassword[1],
                                              drawn[j][1], drawn[j][2]))]
                      IN  /\ secrets' = secrets \o records
                          /\ sent' = Some([table |-> "secrets",
                                           op |-> "insert",
                                           rows |-> records])
                          /\ entered' =
                                 [names |-> [j \in 1..n |-> toImport[j].key],
                                  values |->
                                      [j \in 1..n |-> toImport[j].value],
                                  password |-> masterPassword[1],
                                  old |-> Null]
    /\ UNCHANGED <<now, clockSteps, localStorage, guardVars, pageVars,
                   cryptoVars, uiVars>>

\* the project as CreateProjectModal creates it for "aaaaaaaa" with one
\* of the salts and nonces
FirstProject ==
    ProjectRow(encrypt(CreateProjectModal_VERIFICATION_STRING, Repeat(8, 97),
                       Bytes(16, 17), Bytes(12, 3)))

\* the candidates typed into MasterPasswordModal: "aaaaaaaa" and "aaaaaaab"
Candidates == { Repeat(8, 97), Repeat(7, 97) \o <<98>> }

\* one visit of the project page, from creating the project to saving
\* its secrets
SecretsNext ==
    \/ (CreateProjectSubmit /\ remote' \in {Null, Some(FirstProject)})
    \/ (view = "dashboard" /\ OpenProjectPage)
    \/ FetchData
    \/ \E password \in Candidates : SubmitPassword(password)
    \/ UnlockSettles
    \/ \E keyName \in KeyNames, value \in SecretValues :
           AddSecretSubmit(keyName, value)
    \/ \E id \in 1..MaxSecrets, keyName \in KeyNames, value \in SecretValues :
           EditSecretSubmit(id, keyName, value)
    \/ \E file \in EnvFiles : ImportEnv(file)

SecretsSpec == Init /\ [][SecretsNext]_vars

\* ------------------------------------------------------------------------
\* encrypt and decrypt called directly
\* ------------------------------------------------------------------------

\* plaintexts: "", "db", "e-acute", an emoji (a surrogate pair), an
\* unpaired high surrogate followed by "a", and U+FEFF followed by "a"
Plaintexts ==
    { <<>>, <<100, 98>>, <<233>>, <<55357, 56832>>, <<55296, 97>>,
      <<65279, 97>> }

\* master passwords: every candidate but the empty one
CryptoPasswords == Passwords \ {<<>>}

\* one envelope is followed from its encrypt call on
EncryptCall(plaintext, password) ==
    /\ sealed = Null
    /\ \E salt \in generateSalt, iv \in generateIV :
           envelope' = Some(encrypt(plaintext, password, salt, iv))
    /\ sealed' = Some([plaintext |-> plaintext,
                       masterPassword |-> password])
    /\ altered' = "intact"
    /\ opened' = Null
    /\ UNCHANGED <<secretVars, uiVars>>
    /\ UNCHANGED <<now, clockSteps, localStorage, guardVars, pageVars>>

\* another value of one ciphertext byte
Flip(b) ==
    [b EXCEPT !.of = IF @ = <<>> THEN <<0>>
                     ELSE [@ EXCEPT ![1] = (@ + 1) % 256]]

\* the stored ciphertext with one of its bytes changed: the first byte,
\* the first byte of the tag or the last byte
TamperCiphertext ==
    /\ envelope # Null
    /\ altered = "intact"
    /\ LET buffer == base64ToBuffer(envelope[1].ciphertext).value
       IN  \E i \in {1, Len(buffer) - 15, Len(buffer)} :
               envelope' = Some([envelope[1] EXCEPT !.ciphertext =
                   bufferToBase64([buffer EXCEPT ![i] = Flip(@)])])
    /\ altered' = "ciphertext"
    /\ opened' = Null
    /\ UNCHANGED <<secretVars, uiVars>>
    /\ UNCHANGED <<now, clockSteps, localStorage, guardVars, pageVars, sealed>>

\* text that atob rejects: a '=' before the first character
NotBase64(text) == <<Padding>> \o text

MalformedKinds ==
    {"salt of 8 bytes", "iv of 16 bytes", "salt not Base64", "iv not Base64",
     "ciphertext not Base64"}

Malformed(data, kind) ==
    IF kind = "salt of 8 bytes"
    THEN [data EXCEPT !.salt =
             bufferToBase64(SubSeq(base64ToBuffer(@).value, 1, 8))]
    ELSE IF kind = "iv of 16 bytes"
    THEN [data EXCEPT !.iv =
             bufferToBase64(base64ToBuffer(@).value \o Bytes(4, 0))]
    ELSE IF kind = "salt not Base64"
    THEN [data EXCEPT !.salt = NotBase64(@)]
    ELSE IF kind = "iv not Base64"
    THEN [data EXCEPT !.iv = NotBase64(@)]
    ELSE [data EXCEPT !.ciphertext = NotBase64(@)]

\* the stored envelope made structurally invalid
MalformEnvelope ==
    /\ envelope # Null
    /\ altered = "intact"
    /\ \E kind \in MalformedKinds :
           /\ envelope' = Some(Malformed(envelope[1], kind))
           /\ altered' = kind
    /\ opened' = Null
    /\ UNCHANGED <<secretVars, uiVars>>
    /\ UNCHANGED <<now, clockSteps, localStorage, guardVars, pageVars, sealed>>

DecryptCall(password) ==
    /\ envelope # Null
    /\ opened' = Some([masterPassword |-> password,
                       outcome |-> decrypt(envelope[1].ciphertext,
                                           envelope[1].iv, envelope[1].salt,
                                           password)])
    /\ UNCHANGED <<secretVars, uiVars>>
    /\ UNCHANGED <<now, clockSteps, localStorage, guardVars, pageVars, sealed,
                   envelope, altered>>

CryptoNext ==
    \/ \E plaintext \in Plaintexts, password \in CryptoPasswords :
           EncryptCall(plaintext, password)
    \/ TamperCiphertext
    \/ MalformEnvelope
    \/ \E password \in CryptoPasswords : DecryptCall(password)

CryptoSpec == Init /\ [][CryptoNext]_vars

\* ------------------------------------------------------------------------
\* DeleteProjectModal on the dashboard
\* ------------------------------------------------------------------------

\* the text 'yes delete'
CONFIRM_PHRASE == <<121, 101, 115, 32, 100, 101, 108, 101, 116, 101>>

\* String.prototype.toLowerCase on ASCII text
toLowerCase(text) ==
    [i \in 1..Len(text) |->
        IF text[i] \in 65..90 THEN text[i] + 32 ELSE text[i]]

\* what is typed into the name field: "", 'Pr', 'pr', 'Pr '
NameInputs == { <<>>, ListedName, <<112, 114>>, ListedName \o <<32>> }

\* what is typed into the phrase field: "", 'yes delete', 'YES DELETE',
\* 'Yes Delete', 'yes delet', 'yes  delete'
ConfirmInputs ==
    { <<>>, CONFIRM_PHRASE,
      <<89, 69, 83, 32, 68, 69, 76, 69, 84, 69>>,
      <<89, 101, 115, 32, 68, 101, 108, 101, 116, 101>>,
      <<121, 101, 115, 32, 100, 101, 108, 101, 116>>,
      <<121, 101, 115, 32, 32, 100, 101, 108, 101, 116, 101>> }

\* how often the model lets the form be submitted
MaxSubmits == 2

nameMatches(name, projectName) == name = projectName

phraseMatches(confirm) == toLowerCase(confirm) = CONFIRM_PHRASE

\* faulty variant: the name is compared ignoring case too
canDelete_AnyCase(name, confirm, projectName) ==
    /\ toLowerCase(name) = toLowerCase(projectName)
    /\ phraseMatches(confirm)

canDelete(name, confirm, projectName) ==
    nameMatches(name, projectName) /\ phraseMatches(confirm)

\* what the dashboard's delete handlers leave alone
otherThanDelete ==
    <<now, clockSteps, localStorage, guardVars, pageVars, cryptoVars,
      secretVars, modalVars, rowVars>>

\* DashboardPage.handleDeleteClick: the modal mounts with empty fields
handleDeleteClick(name) ==
    /\ deleteTarget = Null
    /\ name \in projects
    /\ deleteTarget' = Some(name)
    /\ nameInput' = <<>>
    /\ confirmInput' = <<>>
    /\ UNCHANGED <<projects, deletion>>
    /\ UNCHANGED otherThanDelete

\* onClose: Escape, the overlay, the X or Cancel
DeleteModalClose ==
    /\ deleteTarget # Null
    /\ deleteTarget' = Null
    /\ UNCHANGED <<projects, nameInput, confirmInput, deletion>>
    /\ UNCHANGED otherThanDelete

\* onChange of the name field
setNameInput(text) ==
    /\ deleteTarget # Null
    /\ nameInput' = text
    /\ UNCHANGED <<projects, deleteTarget, confirmInput, deletion>>
    /\ UNCHANGED otherThanDelete

\* onChange of the phrase field, which is disabled until the name matches
setConfirmInput(text) ==
    /\ deleteTarget # Null
    /\ nameMatches(nameInput, deleteTarget[1])
    /\ confirmInput' = text
    /\ UNCHANGED <<projects, deleteTarget, nameInput, deletion>>
    /\ UNCHANGED otherThanDelete

\* DeleteProjectModal.handleSubmit, and DashboardPage.handleDeleteConfirm
\* when it is called: the remote store decides whether the delete fails
DeleteSubmit ==
    /\ deleteTarget # Null
    /\ deletion.submits < MaxSubmits
    /\ LET confirmed == canDelete(nameInput, confirmInput, deleteTarget[1])
       IN  /\ deletion' =
                 [projectName |-> deleteTarget[1], nameInput |-> nameInput,
                  confirmInput |-> confirmInput, onConfirm |-> confirmed,
                  submits |-> deletion.submits + 1]
           /\ IF confirmed
              THEN \E error \in BOOLEAN :
                     IF error
                     THEN UNCHANGED <<projects, deleteTarget>>
                     ELSE /\ projects' = projects \ {deleteTarget[1]}
                          /\ deleteTarget' = Null
              ELSE UNCHANGED <<projects, deleteTarget>>
    /\ UNCHANGED <<nameInput, confirmInput>>
    /\ UNCHANGED otherThanDelete

DeleteNext ==
    \/ \E name \in ListedProjects : handleDeleteClick(name)
    \/ DeleteModalClose
    \/ \E text \in NameInputs : setNameInput(text)
    \/ \E text \in ConfirmInputs : setConfirmInput(text)
    \/ DeleteSubmit

DeleteSpec == Init /\ [][DeleteNext]_vars

\* ------------------------------------------------------------------------
\* SecretRow on the project page
\* ------------------------------------------------------------------------

\* the delay of the auto-hide timeout
HIDE_AFTER_MS == 15000

\* how far the clock moves in one step while a row is looked at
RowClockSteps == {5000, 10000}

\* how many timeouts the model lets a row set
MaxTimers == 3

\* the secret the row shows: K = 'v', encrypted under "aaaaaaaa"
ShownSecret ==
    SecretInsert(pageProjectId, <<75>>,
                 encrypt(<<118>>, Repeat(8, 97), Bytes(16, 17), Bytes(12, 3)))

\* what the row's handlers leave alone
otherThanRow ==
    <<localStorage, guardVars, remote, createdWith, view, reactVars, pending,
      cryptoVars, secretVars, modalVars, deleteVars>>

\* SecretRow.decryptValue
decryptValue ==
    decrypt(secrets[1].encrypted_value, secrets[1].iv, secrets[1].salt,
            masterPassword[1])

clearTimeout(armed, id) == {t \in armed : id = Null \/ t.id # id[1]}

\* faulty variant: hiding by hand leaves the timeout set
handleReveal_KeepsTimer ==
    /\ Unlocked
    /\ secrets # <<>>
    /\ ~decrypting
    /\ IF revealed
       THEN /\ revealed' = FALSE
            /\ rowValue' = <<>>
            /\ event' = Happened("hidden", <<>>)
            /\ UNCHANGED <<decrypting, hideTimer, timers, nextTimer, shown>>
       ELSE /\ nextTimer <= MaxTimers
            /\ decrypting' = TRUE
            /\ event' = Happened("decrypting", <<>>)
            /\ UNCHANGED <<revealed, rowValue, hideTimer, timers, nextTimer,
                           shown>>
    /\ UNCHANGED <<now, clockSteps>>
    /\ UNCHANGED otherThanRow

\* SecretRow.handleReveal up to its await: the button is disabled while
\* decrypting
handleReveal ==
    /\ Unlocked
    /\ secrets # <<>>
    /\ ~decrypting
    /\ IF revealed
       THEN /\ revealed' = FALSE
            /\ rowValue' = <<>>
            /\ timers' = clearTimeout(timers, hideTimer)
            /\ event' = Happened("hidden", <<>>)
            /\ UNCHANGED <<decrypting, hideTimer, nextTimer, shown>>
       ELSE /\ nextTimer <= MaxTimers
            /\ decrypting' = TRUE
            /\ event' = Happened("decrypting", <<>>)
            /\ UNCHANGED <<revealed, rowValue, hideTimer, timers, nextTimer,
                           shown>>
    /\ UNCHANGED <<now, clockSteps>>
    /\ UNCHANGED otherThanRow

\* SecretRow.handleReveal from the moment decrypt settles
RevealSettles ==
    /\ decrypting
    /\ LET plain == decryptValue
       IN  IF plain.ok
           THEN /\ rowValue' = plain.value
                /\ revealed' = TRUE
                /\ hideTimer' = Some(nextTimer)
                /\ timers' = timers \cup
                       {[id |-> nextTimer, due |-> now + HIDE_AFTER_MS]}
                /\ nextTimer' = nextTimer + 1
                /\ shown' = [at |-> now, timer |-> nextTimer, hiddenBy |-> 0]
                /\ event' = Happened("revealed", <<>>)
           ELSE /\ event' = Happened("Failed to decrypt", <<>>)
                /\ UNCHANGED <<revealed, rowValue, hideTimer, timers,
                               nextTimer, shown>>
    /\ decrypting' = FALSE
    /\ UNCHANGED <<now, clockSteps>>
    /\ UNCHANGED otherThanRow

\* the callback of a timeout that is due
HideTimerFires ==
    /\ \E t \in timers :
          /\ t.due <= now
          /\ timers' = timers \ {t}
          /\ shown' = [shown EXCEPT !.hiddenBy = t.id]
    /\ revealed' = FALSE
    /\ rowValue' = <<>>
    /\ event' = Happened("auto-hide", <<>>)
    /\ UNCHANGED <<decrypting, hideTimer, nextTimer>>
    /\ UNCHANGED <<now, clockSteps>>
    /\ UNCHANGED otherThanRow

\* time passes, but not beyond the moment a timeout is due: its callback
\* runs first
RowClock ==
    /\ clockSteps < MaxClockSteps
    /\ \E d \in RowClockSteps :
          /\ \A t \in timers : t.due >= now + d
          /\ now' = now + d
    /\ clockSteps' = clockSteps + 1
    /\ UNCHANGED <<event, rowVars>>
    /\ UNCHANGED otherThanRow

\* an unlocked page of a project without verification record, which shows
\* one secret; the session password is the one the secret was encrypted
\* with, or another
RowInit ==
    /\ now = 0
    /\ clockSteps = 0
    /\ localStorage = EmptyStorage
    /\ call = NoCall
    /\ streak = [p \in Projects |-> 0]
    /\ remote = Some(LegacyRow)
    /\ createdWith = Null
    /\ view = "project"
    /\ project = Some(LegacyRow)
    /\ loading = FALSE
    /\ masterPassword \in {Some(c) : c \in Candidates}
    /\ unlocking = FALSE
    /\ locked = FALSE
    /\ lockRemainingMs = 0
    /\ attemptsLeft = MAX_ATTEMPTS
    /\ pending = Null
    /\ event = NoEvent
    /\ NothingSealed
    /\ secrets = <<ShownSecret>>
    /\ sent = Null
    /\ entered = NoInput
    /\ UiIdle

RowNext ==
    \/ handleReveal
    \/ RevealSettles
    \/ HideTimerFires
    \/ RowClock

RowSpec == RowInit /\ [][RowNext]_vars

\* ------------------------------------------------------------------------
\* Properties of the lockout guard
\* ------------------------------------------------------------------------

\* the record a call found has a lockedUntil, and it lies after / not after t
HasLock(state) == state # Null /\ state[1].lockedUntil # Null

LockedAfter(state, t) == HasLock(state) /\ state[1].lockedUntil[1] > t

ExpiredAt(state, t) == HasLock(state) /\ state[1].lockedUntil[1] <= t

LastCallIs(op, p) == call.op = op /\ call.projectId = p

\* C1: from no record, the first, second and third consecutive
\* recordFailedAttempt return attempts 1, 2, 3 with locked FALSE, FALSE,
\* TRUE; once the third has returned, and until the 10,800,000 ms have
\* passed, isLockedOut reports locked with remainingMs = 10,800,000 minus
\* the time elapsed since that call.
C1_ThreeFailuresLock ==
    /\ LOCKOUT_DURATION_MS = 10800000
    /\ \A p \in Projects :
        (LastCallIs("recordFailedAttempt", p) /\ streak[p] \in 1..3) =>
            /\ call.ret = Some([attempts |-> streak[p],
                                locked |-> (streak[p] = 3)])
            /\ (streak[p] = 3 /\ now - call.at < 10800000) =>
                  isLockedOut(localStorage, p, now).ret =
                      [locked |-> TRUE,
                       remainingMs |-> 10800000 - (now - call.at)]

C1_Witness ==
    \E p \in Projects :
        /\ LastCallIs("recordFailedAttempt", p)
        /\ streak[p] = 3
        /\ call.ret = Some([attempts |-> 3, locked |-> TRUE])
        /\ now - call.at = 1
        /\ isLockedOut(localStorage, p, now).ret.remainingMs = 10799999

\* C2: in every persisted record, lockedUntil is set if and only if
\* attempts is at least 3.
C2_LockedUntilIffThreshold ==
    \A p \in Projects :
        LET state == getLockoutState(localStorage, p)
        IN  state # Null =>
                (state[1].lockedUntil # Null <=> state[1].attempts >= 3)

C2_Witness ==
    \E p, q \in Projects :
        LET sp == getLockoutState(localStorage, p)
            sq == getLockoutState(localStorage, q)
        IN  /\ sp # Null /\ sq # Null
            /\ LastCallIs("recordFailedAttempt", p)
            /\ ExpiredAt(call.before, call.at)
            /\ sp[1].attempts = 1 /\ sp[1].lockedUntil = Null
            /\ sq[1].attempts = 3 /\ sq[1].lockedUntil # Null

\* C3: isLockedOut returns locked with remainingMs = lockedUntil - now > 0
\* exactly when the record it finds has a lockedUntil later than now, and
\* otherwise returns unlocked with remainingMs 0; when the lock is active
\* and when there is no lock it leaves the record as it found it.
C3_IsLockedOutResult ==
    \A p \in Projects :
        LastCallIs("isLockedOut", p) =>
            /\ IF LockedAfter(call.before, call.at)
               THEN /\ call.ret[1].locked
                    /\ call.ret[1].remainingMs =
                           call.before[1].lockedUntil[1] - call.at
                    /\ call.ret[1].remainingMs > 0
               ELSE call.ret = Some([locked |-> FALSE, remainingMs |-> 0])
            /\ (LockedAfter(call.before, call.at) \/ ~HasLock(call.before)) =>
                   getLockoutState(localStorage, p) = call.before

C3_Witness ==
    \E p \in Projects :
        /\ LastCallIs("isLockedOut", p)
        /\ call.ret = Some([locked |-> TRUE, remainingMs |-> 1])
        /\ getLockoutState(localStorage, p) = call.before

\* C4: isLockedOut called at or after the stored lockedUntil reports
\* unlocked and removes the record: afterwards getRemainingAttempts is 3
\* and the next recordFailedAttempt returns attempts 1.
C4_LazyExpiry ==
    \A p \in Projects :
        (LastCallIs("isLockedOut", p) /\ ExpiredAt(call.before, call.at)) =>
            /\ call.ret = Some([locked |-> FALSE, remainingMs |-> 0])
            /\ getLockoutState(localStorage, p) = Null
            /\ getRemainingAttempts(localStorage, p, now) = 3
            /\ recordFailedAttempt(localStorage, p, now).ret =
                   [attempts |-> 1, locked |-> FALSE]

C4_Witness ==
    \E p \in Projects :
        /\ LastCallIs("isLockedOut", p)
        /\ HasLock(call.before)
        /\ call.before[1].lockedUntil[1] = call.at
        /\ getLockoutState(localStorage, p) = Null

\* C5: after clearLockout, whatever the record was, the project is open:
\* no record, isLockedOut unlocked, getRemainingAttempts 3, and the next
\* recordFailedAttempt returns attempts 1, unlocked.
C5_ClearResets ==
    \A p \in Projects :
        LastCallIs("clearLockout", p) =>
            /\ getLockoutState(localStorage, p) = Null
            /\ isLockedOut(localStorage, p, now).ret =
                   [locked |-> FALSE, remainingMs |-> 0]
            /\ getRemainingAttempts(localStorage, p, now) = 3
            /\ recordFailedAttempt(localStorage, p, now).ret =
                   [attempts |-> 1, locked |-> FALSE]

C5_Witness ==
    \E p \in Projects :
        /\ LastCallIs("clearLockout", p)
        /\ LockedAfter(call.before, call.at)
        /\ now = call.at

\* C6: getRemainingAttempts returns 3 when there is no record or the
\* record's lockedUntil has passed, and otherwise 3 minus the stored
\* attempts, floored at 0; the result lies in 0..3.
C6_RemainingAttempts ==
    \A p \in Projects :
        LastCallIs("getRemainingAttempts", p) =>
            /\ call.ret[1] \in 0..3
            /\ call.ret[1] =
                 IF call.before = Null \/ ExpiredAt(call.before, call.at)
                 THEN 3
                 ELSE IF call.before[1].attempts >= 3 THEN 0
                 ELSE 3 - call.before[1].attempts

C6_Witness ==
    \E p \in Projects :
        /\ LastCallIs("getRemainingAttempts", p)
        /\ call.before # Null
        /\ call.before[1].attempts > 3
        /\ call.ret = Some(0)

\* the stored attempts a failure counts from: 0 when there is no record or
\* its lock has expired
CountedFrom(state, t) ==
    IF state = Null \/ ExpiredAt(state, t) THEN 0 ELSE state[1].attempts

StoredAttempts(state) == IF state = Null THEN 0 ELSE state[1].attempts

\* C7 as stated: recordFailedAttempt adds exactly one to the persisted
\* attempts and returns locked exactly when this call made attempts reach
\* the threshold.
C7_Original ==
    \A p \in Projects :
        LastCallIs("recordFailedAttempt", p) =>
            /\ StoredAttempts(getLockoutState(localStorage, p)) =
                   StoredAttempts(call.before) + 1
            /\ call.ret[1].locked <=>
                   (StoredAttempts(call.before) < 3
                        /\ call.ret[1].attempts >= 3)

\* C7 amended: recordFailedAttempt persists and returns one more than the
\* attempts it counts from (the stored attempts, or 0 when there is no
\* record or the stored lock has expired), and returns locked exactly when
\* the new attempts is at least the threshold.
C7_Amended ==
    \A p \in Projects :
        LastCallIs("recordFailedAttempt", p) =>
            LET n == CountedFrom(call.before, call.at) + 1
            IN  /\ call.ret = Some([attempts |-> n, locked |-> (n >= 3)])
                /\ StoredAttempts(getLockoutState(localStorage, p)) = n

C7_Witness ==
    \E p \in Projects :
        /\ LastCallIs("recordFailedAttempt", p)
        /\ LockedAfter(call.before, call.at)
        /\ call.ret = Some([attempts |-> 4, locked |-> TRUE])

\* ------------------------------------------------------------------------
\* Properties of the unlock flow
\* ------------------------------------------------------------------------

\* the text '__dotenv_verify__'
MarkerText ==
    <<95, 95, 100, 111, 116, 101, 110, 118, 95, 118, 101, 114, 105, 102, 121,
      95, 95>>

UnlockVerified == event.type = "Project unlocked"

UnlockRefused == event.type = "Incorrect password"

\* what decrypt makes of the fetched verification record and a candidate
Decrypted(candidate) ==
    decrypt(project[1].mp_verify[1], project[1].mp_iv[1],
            project[1].mp_salt[1], candidate)

\* C8: when handleUnlock has verified a password, the project's lockout
\* record is gone, the verified password is the session master password,
\* and the next failure would be counted as the first, whatever record the
\* unlock found.
C8_SuccessClearsLockout ==
    UnlockVerified =>
        /\ getLockoutState(localStorage, pageProjectId) = Null
        /\ masterPassword = Some(event.password)
        /\ Decrypted(masterPassword[1]).ok
        /\ getRemainingAttempts(localStorage, pageProjectId, now) = 3
        /\ recordFailedAttempt(localStorage, pageProjectId, now).ret =
               [attempts |-> 1, locked |-> FALSE]

C8_Witness ==
    /\ UnlockVerified
    /\ event.before # Null
    /\ event.before[1].attempts = 2
    /\ masterPassword = Some(event.password)

\* C9: for a project with a verification record, the candidate is verified
\* and becomes the session master password exactly when decrypt succeeds
\* on the record and returns '__dotenv_verify__'; otherwise the attempt is
\* refused and there is no session master password.
C9_VerifiedIffMarker ==
    (UnlockVerified \/ UnlockRefused) =>
        LET d == Decrypted(event.password)
            marker == d.ok /\ d.value = MarkerText
        IN  /\ UnlockVerified <=> marker
            /\ masterPassword = IF marker THEN Some(event.password) ELSE Null

C9_Witness ==
    /\ UnlockRefused
    /\ Decrypted(event.password).ok
    /\ Decrypted(event.password).value # MarkerText
    /\ masterPassword = Null

\* C10 as stated: a project created through CreateProjectModal with
\* password W is unlocked by the candidate W and by no other candidate, and
\* the text encrypted at creation is the text handleUnlock compares with.
C10_Original ==
    /\ CreateProjectModal_VERIFICATION_STRING = VERIFICATION_STRING
    /\ (createdWith # Null /\ (UnlockVerified \/ UnlockRefused)) =>
           (UnlockVerified <=> event.password = createdWith[1])

\* what the code guarantees instead: the candidates that unlock are those
\* with the UTF-8 encoding of W
C10_SameEncodingUnlocks ==
    (createdWith # Null /\ (UnlockVerified \/ UnlockRefused)) =>
        (UnlockVerified <=>
            TextEncode(event.password) = TextEncode(createdWith[1]))


\* ------------------------------------------------------------------------
\* Properties of the legacy path and of the lockout in the page
\* ------------------------------------------------------------------------

\* the fetched project has no verification record
LegacyProject == project # Null /\ ~TruthyString(project[1].mp_verify)

SubmitEvents == {"ignored", "accepted unverified", "verifying"}

\* C11: for a project without mp_verify, handleUnlock accepts every
\* non-empty candidate unverified: no decrypt is started, the candidate
\* becomes the session master password, and no failed attempt is ever
\* recorded for the project.
C11_LegacyAcceptsUnverified ==
    LegacyProject =>
        /\ pending = Null
        /\ event.type \notin {"verifying", "Incorrect password",
                              "Project unlocked"}
        /\ getLockoutState(localStorage, pageProjectId) = Null
        /\ event.type \in SubmitEvents =>
               IF event.password = <<>>
               THEN event.type = "ignored" /\ masterPassword = Null
               ELSE /\ event.type = "accepted unverified"
                    /\ masterPassword = Some(event.password)
                    /\ ~unlocking

\* a candidate too short to have created a project is accepted
C11_Witness ==
    /\ LegacyProject
    /\ event.type = "accepted unverified"
    /\ masterPassword = Some(Repeat(3, 97))

\* C13: within one page instance no decrypt of the verification record
\* starts while the lockout is active: while the stored lock is active the
\* page is in its locked state (form hidden, submission ignored), a
\* verification only starts, and an unlock only succeeds, from a record
\* without a lock and with fewer than MAX_ATTEMPTS failures.
C13_NoDecryptWhileLocked ==
    /\ (view = "project"
        /\ LockedAfter(getLockoutState(localStorage, pageProjectId), now))
       => locked /\ pending = Null
    /\ event.type \in {"verifying", "Project unlocked", "Incorrect password"}
       => /\ ~HasLock(event.before)
          /\ StoredAttempts(event.before) < MAX_ATTEMPTS
    /\ pending # Null =>
           ~HasLock(getLockoutState(localStorage, pageProjectId))

\* the third failure has locked the project and the page shows it
C13_Witness ==
    /\ view = "project"
    /\ locked
    /\ LockedAfter(getLockoutState(localStorage, pageProjectId), now)
    /\ event.type = "Incorrect password"
    /\ StoredAttempts(event.before) = MAX_ATTEMPTS - 1


\* ------------------------------------------------------------------------
\* Properties of the lockout functions over a failing storage
\* ------------------------------------------------------------------------

OpenResult == [locked |-> FALSE, remainingMs |-> 0]

DecryptionFailed == [ok |-> FALSE, error |-> IncorrectMasterPassword]

\* the last decrypt call was given the password the envelope was made with
SamePassword ==
    opened # Null /\ opened[1].masterPassword = sealed[1].masterPassword

\* C14 as stated: decrypt of what encrypt returned, under the same
\* password, returns the plaintext that was encrypted.
C14_Original ==
    (altered = "intact" /\ SamePassword) =>
        /\ opened[1].outcome.ok
        /\ opened[1].outcome.value = sealed[1].plaintext

\* C16 as stated: decrypt of what encrypt returned, under a different
\* password, throws the wrong-password error and returns nothing.
C16_Original ==
    (altered = "intact" /\ opened # Null /\ ~SamePassword) =>
        /\ ~opened[1].outcome.ok
        /\ opened[1].outcome.error = IncorrectMasterPassword

\* C17: decrypt of an envelope whose ciphertext bytes were altered throws,
\* under every password, the Error with the wrong-password message, and
\* every failing decrypt of an unaltered envelope throws that same Error.
C17_TamperedFailsAlike ==
    /\ (altered = "ciphertext" /\ opened # Null) =>
           /\ ~opened[1].outcome.ok
           /\ opened[1].outcome.error = IncorrectMasterPassword
    /\ (altered = "intact" /\ opened # Null /\ ~opened[1].outcome.ok) =>
           opened[1].outcome.error = IncorrectMasterPassword

\* the altered envelope was refused under the password it was made with
C17_Witness ==
    /\ altered = "ciphertext"
    /\ SamePassword
    /\ ~opened[1].outcome.ok

\* C18 as stated: decrypt of a structurally invalid envelope fails with a
\* condition other than the wrong-password error.
C18_Original ==
    (altered \in MalformedKinds /\ opened # Null) =>
        /\ ~opened[1].outcome.ok
        /\ opened[1].outcome.error # IncorrectMasterPassword


\* ------------------------------------------------------------------------
\* Properties of what is stored
\* ------------------------------------------------------------------------

\* ciphertext, iv and salt are the Base64 of one encrypt call on value under
\* password: 16 random bytes, 12 random bytes, and the AES-GCM output for
\* them
EnvelopeOf(value, password, ciphertext, iv, salt) ==
    LET saltBuffer == base64ToBuffer(salt)
        ivBuffer == base64ToBuffer(iv)
        ciphertextBuffer == base64ToBuffer(ciphertext)
    IN  /\ saltBuffer.ok /\ ivBuffer.ok /\ ciphertextBuffer.ok
        /\ saltBuffer.value \in generateSalt
        /\ ivBuffer.value \in generateIV
        /\ ciphertextBuffer.value =
               AesGcmEncrypt(deriveKey(password, saltBuffer.value),
                             ivBuffer.value, TextEncode(value))

ProjectColumns == {"name", "user_id", "mp_verify", "mp_iv", "mp_salt"}

SecretColumns == {"project_id", "key_name", "encrypted_value", "iv", "salt"}

UpdateColumns == {"key_name", "encrypted_value", "iv", "salt", "updated_at"}

\* what was accepted last holds, next to names the user typed, nothing but
\* one envelope per record
SentIsEnvelopes ==
    LET rows == sent[1].rows
    IN  \A j \in 1..Len(rows) :
            IF sent[1].table = "projects"
            THEN /\ DOMAIN rows[j] = ProjectColumns
                 /\ rows[j].name = trim(entered.names[j])
                 /\ rows[j].user_id = UserId
                 /\ EnvelopeOf(entered.values[j], entered.password,
                               rows[j].mp_verify, rows[j].mp_iv,
                               rows[j].mp_salt)
            ELSE /\ DOMAIN rows[j] = IF sent[1].op = "insert"
                                     THEN SecretColumns ELSE UpdateColumns
                 /\ rows[j].key_name = ToUpperCase(trim(entered.names[j]))
                 /\ EnvelopeOf(entered.values[j], entered.password,
                               rows[j].encrypted_value, rows[j].iv,
                               rows[j].salt)

\* an item of localStorage is the JSON of a counter and a timestamp
ItemIsLockoutState(item) ==
    /\ IsJSON(item)
    /\ DOMAIN JSONparse(item) = {"attempts", "lockedUntil"}
    /\ JSONparse(item).attempts \in Nat
    /\ \/ JSONparse(item).lockedUntil = Null
       \/ JSONparse(item).lockedUntil[1] \in Nat

\* C19: every record the remote store accepts (project insert, secret
\* insert, secret update, bulk import) has exactly the columns of its
\* table, of which only ciphertext, iv and salt depend on the master
\* password, being the envelope of one encrypt call; every row of the
\* secrets table has those columns only; every item of localStorage is a
\* lockout record. Neither the password nor the key is a column or an item.
C19_OnlyEnvelopesLeave ==
    /\ sent # Null => SentIsEnvelopes
    /\ \A i \in 1..Len(secrets) : DOMAIN secrets[i] = SecretColumns
    /\ remote # Null => DOMAIN remote[1] = {"mp_verify", "mp_iv", "mp_salt"}
    /\ \A k \in StorageKeys :
           localStorage.items[k] # Null =>
               ItemIsLockoutState(localStorage.items[k][1])

\* a failed unlock has been recorded in localStorage and, after the unlock,
\* two records were imported together
C19_Witness ==
    /\ sent # Null
    /\ sent[1].table = "secrets"
    /\ Len(sent[1].rows) = 2
    /\ event.type = "Project unlocked"
    /\ event.before # Null

\* C20: an edit replaces the secret's envelope wholesale: the update
\* carries encrypted_value, iv and salt, all three from the one encrypt call
\* on the submitted value, and the row then holds exactly that envelope.
C20_EditReplacesEnvelope ==
    (sent # Null /\ sent[1].op = "update") =>
        LET columns == sent[1].rows[1]
            row == secrets[entered.old[1].id]
        IN  /\ {"encrypted_value", "iv", "salt"} \subseteq DOMAIN columns
            /\ EnvelopeOf(entered.values[1], entered.password,
                          columns.encrypted_value, columns.iv, columns.salt)
            /\ row.encrypted_value = columns.encrypted_value
            /\ row.iv = columns.iv
            /\ row.salt = columns.salt
            /\ decrypt(row.encrypted_value, row.iv, row.salt,
                       entered.password)
                   = [ok |-> TRUE, value |-> entered.values[1]]

\* a secret was saved again, and neither its iv nor its salt is the one
\* it had
C20_Witness ==
    /\ sent # Null
    /\ sent[1].op = "update"
    /\ LET before == entered.old[1]
           row == secrets[entered.old[1].id]
       IN  /\ row.iv # before.iv
           /\ row.salt # before.salt

\* ------------------------------------------------------------------------
\* Properties of CreateProjectModal
\* ------------------------------------------------------------------------

\* the submitted form passes the three checks
SubmissionValid ==
    /\ trim(submission.name) # <<>>
    /\ Len(submission.masterPassword) >= 8
    /\ submission.masterPassword = submission.confirmPassword

\* the row is a verification record encrypt makes of the marker
IsVerificationOf(row, password) ==
    \E salt \in generateSalt, iv \in generateIV :
        row = ProjectRow(encrypt(MarkerText, password, salt, iv))

\* C21: CreateProjectModal creates a project only from a form whose trimmed
\* name is not empty and whose master password has at least 8 characters
\* and equals the confirmation; it then has called encrypt once, on the
\* marker and that password, and the project's verification record is an
\* envelope of that call; a form that fails a check causes no encrypt call
\* and no insert.
C21_CreateOnlyWhenValid ==
    /\ ~SubmissionValid =>
          /\ submission.encrypted = <<>>
          /\ submission.inserts = 0
          /\ createdWith = Null
    /\ SubmissionValid =>
          submission.encrypted =
              << [plaintext |-> MarkerText,
                  masterPassword |-> submission.masterPassword] >>
    /\ createdWith # Null =>
          /\ SubmissionValid
          /\ submission.inserts = 1
          /\ createdWith = Some(submission.masterPassword)
          /\ remote # Null
          /\ IsVerificationOf(remote[1], submission.masterPassword)
          /\ sent # Null => sent[1].rows[1].name = trim(submission.name)

\* a project was created: the insert of a valid form was accepted
C21_Witness ==
    /\ createdWith # Null
    /\ submission.inserts = 1
    /\ event.type = "Project created"

\* ------------------------------------------------------------------------
\* Properties of DeleteProjectModal
\* ------------------------------------------------------------------------

\* two texts that differ at most in the case of their ASCII letters
SameIgnoringCase(a, b) ==
    /\ Len(a) = Len(b)
    /\ \A i \in 1..Len(a) :
          \/ a[i] = b[i]
          \/ a[i] \in 65..90 /\ b[i] = a[i] + 32
          \/ b[i] \in 65..90 /\ a[i] = b[i] + 32

\* the fields as they stand confirm the deletion of the modal's project
DeleteConfirmed ==
    /\ nameInput = deleteTarget[1]
    /\ SameIgnoringCase(confirmInput,
                        <<121, 101, 115, 32, 100, 101, 108, 101, 116, 101>>)

\* C22: a submit of DeleteProjectModal calls onConfirm only when, as it is
\* submitted, the typed name is the project's name exactly and the typed
\* phrase is 'yes delete' in any case; every other submit, whatever was
\* typed before, changes neither the listed projects nor the open modal.
C22_DeleteOnlyWhenConfirmed ==
    [][ deletion' # deletion =>
          /\ deletion'.onConfirm => DeleteConfirmed
          /\ ~DeleteConfirmed =>
                /\ ~deletion'.onConfirm
                /\ UNCHANGED <<projects, deleteTarget, nameInput,
                               confirmInput>> ]_vars

\* a project was deleted after its name and the phrase, not in lower case,
\* were typed
C22_Witness ==
    /\ deletion.onConfirm
    /\ deletion.confirmInput # CONFIRM_PHRASE
    /\ deletion.projectName \notin projects
    /\ deleteTarget = Null

\* ------------------------------------------------------------------------
\* More properties of the lockout guard
\* ------------------------------------------------------------------------

\* what the guard holds and answers for a project at time t
GuardView(ls, p, t) ==
    [state |-> getLockoutState(ls, p),
     lockout |-> isLockedOut(ls, p, t).ret,
     remaining |-> getRemainingAttempts(ls, p, t)]

\* C23: lockout state is per project: a call of isLockedOut,
\* recordFailedAttempt, getRemainingAttempts or clearLockout for one project
\* leaves the persisted record, the lock status and the remaining attempts
\* of every other project as they were.
C23_PerProject ==
    [][ \A q \in Projects :
          (now' # now \/ call'.projectId # q) =>
              GuardView(localStorage', q, now')
                  = GuardView(localStorage, q, now') ]_vars

\* project A was just locked by its third failure while project B has one
\* failure on record and is open
C23_Witness ==
    /\ LastCallIs("recordFailedAttempt", "A")
    /\ call.ret = Some([attempts |-> 3, locked |-> TRUE])
    /\ getLockoutState(localStorage, "B")
          = Some([attempts |-> 1, lockedUntil |-> Null])
    /\ isLockedOut(localStorage, "A", now).ret.locked
    /\ ~isLockedOut(localStorage, "B", now).ret.locked

\* the call just made is a recordFailedAttempt for p that found a lock
\* already over
RecordsAfterExpiry(p) ==
    /\ call'.op = "recordFailedAttempt"
    /\ call'.projectId = p
    /\ ExpiredAt(call'.before, call'.at)

\* the call just made is a recordFailedAttempt for p, and the call before
\* it was an isLockedOut or getRemainingAttempts for p that found a lock
\* already over
RecordsAfterObservedExpiry(p) ==
    /\ call'.op = "recordFailedAttempt"
    /\ call'.projectId = p
    /\ call.op \in {"isLockedOut", "getRemainingAttempts"}
    /\ call.projectId = p
    /\ ExpiredAt(call.before, call.at)

\* C24: a failure recorded at or after the stored lockedUntil starts a
\* fresh count, whether recordFailedAttempt finds the expired lock itself or
\* isLockedOut or getRemainingAttempts was called on it first: it returns
\* attempts 1, not locked, and stores attempts 1 without lockedUntil; every
\* recorded failure is one more than the failures counted since the record
\* was cleared or its lock ran out.
C24_FreshCountAfterExpiry ==
    [][ \A p \in Projects :
          /\ (RecordsAfterExpiry(p) \/ RecordsAfterObservedExpiry(p)) =>
                /\ call'.ret = Some([attempts |-> 1, locked |-> FALSE])
                /\ getLockoutState(localStorage', p)
                      = Some([attempts |-> 1, lockedUntil |-> Null])
          /\ (call'.op = "recordFailedAttempt" /\ call'.projectId = p) =>
                call'.ret[1].attempts
                    = CountedFrom(call'.before, call'.at) + 1 ]_vars

\* a failure was recorded at the very millisecond the lock ended, and
\* counted as the first
C24_Witness ==
    \E p \in Projects :
        /\ LastCallIs("recordFailedAttempt", p)
        /\ HasLock(call.before)
        /\ call.before[1].lockedUntil[1] = call.at
        /\ call.before[1].attempts >= 3
        /\ call.ret = Some([attempts |-> 1, locked |-> FALSE])

\* ------------------------------------------------------------------------
\* Properties of the project page's lockout display
\* ------------------------------------------------------------------------

\* the record of the page's project
PageRecord == getLockoutState(localStorage, pageProjectId)

\* the page shows the locked state although the lock is over or gone
ShownLockIsOver ==
    /\ view = "project"
    /\ locked
    /\ ~LockedAfter(PageRecord, now)

\* C25: while the project page shows the locked state, each tick of its
\* timer that finds the lock running sets the displayed remaining time to
\* lockedUntil minus the time of the tick; a tick that finds the lock over
\* leaves the locked state with three attempts left and no timer set; and,
\* the timer firing as long as it is set, a page that shows the locked
\* state after lockedUntil has passed gets to that state (unless it is left
\* for the dashboard).
C25_CountdownFollowsGuard ==
    /\ [][ (now' = now /\ event'.type = "tick") =>
              /\ locked'
              /\ LockedAfter(PageRecord', now')
              /\ lockRemainingMs' = PageRecord'[1].lockedUntil[1] - now' ]_vars
    /\ [][ (now' = now
              /\ event'.type = "Lockout expired. You can try again.") =>
              /\ ~locked'
              /\ lockRemainingMs' = 0
              /\ attemptsLeft' = 3
              /\ ~countdownInterval'
              /\ PageRecord' = Null ]_vars
    /\ ShownLockIsOver ~>
          (view = "dashboard" \/ (~locked /\ attemptsLeft = 3
                                    /\ ~countdownInterval))

\* the timer has just found the lock over
C25_Witness ==
    /\ event.type = "Lockout expired. You can try again."
    /\ event.before # Null
    /\ view = "project"
    /\ ~locked
    /\ attemptsLeft = 3

\* ------------------------------------------------------------------------
\* Properties of SecretRow
\* ------------------------------------------------------------------------

\* the timeout the last reveal set is the one and only timeout set, it is
\* the one the ref holds, and it is due 15 seconds after that reveal
OwnTimerPending ==
    /\ timers = {[id |-> shown.timer, due |-> shown.at + 15000]}
    /\ hideTimer = Some(shown.timer)

\* C26: a revealed row is hidden again, and holds no plaintext, 15 seconds
\* after the reveal that showed it at the latest (a timeout's callback
\* running when it is due); a row hidden by hand has no timeout left, and a
\* timeout hides a row only when it is the one set by the reveal that
\* showed it, 15 seconds after that reveal; a row that is not revealed
\* holds no plaintext.
C26_AutoHide ==
    /\ [](revealed => (OwnTimerPending /\ now - shown.at <= 15000))
    /\ [](~revealed => (rowValue = <<>> /\ timers = {}))
    /\ [][ (revealed /\ ~revealed' /\ event'.type = "auto-hide") =>
              /\ shown'.hiddenBy = shown.timer
              /\ now' - shown.at = 15000 ]_vars
    /\ [][ (revealed /\ event'.type = "hidden") =>
              (~revealed' /\ rowValue' = <<>> /\ timers' = {}) ]_vars

\* a row revealed, hidden by hand and revealed again five seconds after
\* the first reveal was hidden by its second timeout at twenty seconds
C26_Witness ==
    /\ event.type = "auto-hide"
    /\ ~revealed
    /\ shown.at = 5000
    /\ shown.timer = 2
    /\ shown.hiddenBy = 2
    /\ now = 20000

\* C27: in the flow of the project page, where only handleUnlock records
\* failures and the modal takes no password while locked, the stored
\* attempts never exceed 3 and the attempts left shown are never negative.
C27_AttemptsBounded ==
    /\ StoredAttempts(PageRecord) <= 3
    /\ attemptsLeft >= 0
    /\ attemptsLeft <= 3

\* the third failure in a row has just been recorded: attempts is at the
\* threshold and none are left
C27_Witness ==
    /\ event.type = "Incorrect password"
    /\ StoredAttempts(event.before) = 2
    /\ StoredAttempts(PageRecord) = 3
    /\ attemptsLeft = 0
    /\ locked

\* the stored lock of p is gone or ends earlier after the step
LockMovesEarlier(p) ==
    LET before == getLockoutState(localStorage, p)
        after == getLockoutState(localStorage', p)
    IN  /\ HasLock(before)
        /\ \/ ~HasLock(after)
           \/ after[1].lockedUntil[1] < before[1].lockedUntil[1]

\* C28: a failure recorded while the lock is running returns locked and
\* stores a lockedUntil that is not earlier than the one it found; and from
\* one state to the next a stored lockedUntil never becomes earlier, it only
\* becomes absent, by clearLockout or because the lock was over.
C28_FailureWhileLockedKeepsLock ==
    [][ \A p \in Projects :
          /\ (/\ call'.op = "recordFailedAttempt"
              /\ call'.projectId = p
              /\ now' = now
              /\ LockedAfter(call'.before, call'.at)) =>
                LET after == getLockoutState(localStorage', p)
                IN  /\ call'.ret[1].locked
                    /\ HasLock(after)
                    /\ after[1].lockedUntil[1]
                          >= call'.before[1].lockedUntil[1]
                    /\ LockedAfter(after, now')
          /\ LockMovesEarlier(p) =>
                /\ ~HasLock(getLockoutState(localStorage', p))
                /\ \/ call'.op = "clearLockout" /\ call'.projectId = p
                   \/ ExpiredAt(getLockoutState(localStorage, p), now) ]_vars

\* a fourth failure was recorded one millisecond into the lock, and the
\* lock now ends one millisecond later than it did
C28_Witness ==
    \E p \in Projects :
        /\ LastCallIs("recordFailedAttempt", p)
        /\ LockedAfter(call.before, call.at)
        /\ call.ret = Some([attempts |-> 4, locked |-> TRUE])
        /\ getLockoutState(localStorage, p)[1].lockedUntil[1]
              = call.before[1].lockedUntil[1] + 1

\* the verification record as fetched decrypts to the marker under the
\* password handleUnlock is waiting on
PendingOpensMarker ==
    Decrypted(pending[1]) = [ok |-> TRUE, value |-> MarkerText]

\* C29: for a project with a verification record, a handleUnlock call that
\* does not succeed (wrong password, another plaintext than the marker, or a
\* record decrypt cannot decode) stores one failed attempt more than were
\* counted and throws 'Incorrect password' to the modal, and a call that
\* succeeds leaves no record; when a call is over, that of a project
\* without verification record included, unlocking is false.
C29_OneFailurePerFailedUnlock ==
    [][ /\ (pending # Null /\ pending' = Null /\ event'.type # "mount") =>
              /\ ~unlocking'
              /\ IF PendingOpensMarker
                 THEN /\ event'.type = "Project unlocked"
                      /\ PageRecord' = Null
                      /\ masterPassword' = pending
                 ELSE /\ event'.type = "Incorrect password"
                      /\ StoredAttempts(PageRecord')
                            = CountedFrom(PageRecord, now) + 1
                      /\ masterPassword' = Null
        /\ (now' = now /\ event'.type = "accepted unverified") =>
              (~unlocking' /\ PageRecord' = Null) ]_vars

\* the password that made the record was refused because the record's salt
\* cannot be decoded, and the failure was counted on top of an earlier one
C29_Witness ==
    /\ event.type = "Incorrect password"
    /\ event.password = Repeat(8, 97)
    /\ project = Some(MalformedRow)
    /\ StoredAttempts(event.before) = 1
    /\ StoredAttempts(PageRecord) = 2
    /\ ~unlocking

\* what the page shows is what the guard answers now
DisplayAgrees ==
    /\ locked = isLockedOut(localStorage, pageProjectId, now).ret.locked
    /\ attemptsLeft = getRemainingAttempts(localStorage, pageProjectId, now)

\* the handlers and the timer that set the displayed lockout state
DisplayEvents ==
    {"mount", "Incorrect password", "Project unlocked", "tick",
     "Lockout expired. You can try again."}

\* C30: right after the mount refresh, a failed unlock, a successful unlock
\* or a countdown tick of the project page, the locked flag shown is the
\* guard's locked and the attempts left shown are the guard's remaining
\* attempts; afterwards they differ only while the page still shows a lock
\* that is over and its timer, which is then set, has not fired again.
C30_DisplayAgreesWithRecord ==
    /\ [][ (now' = now /\ view' = "project"
              /\ event'.type \in DisplayEvents) => DisplayAgrees' ]_vars
    /\ [](view = "project" =>
            \/ DisplayAgrees
            \/ ShownLockIsOver /\ countdownInterval)

\* the page was opened again after two failures and shows one attempt left
C30_Witness ==
    /\ event.type = "mount"
    /\ view = "project"
    /\ StoredAttempts(PageRecord) = 2
    /\ attemptsLeft = 1
    /\ ~locked

====
